---- MODULE Spec2Model ----
(***************************************************************************)
(* Model of the bit-loader Loader (src/src/module.js): the store of        *)
(* module-meta records, the asynchronous fetch / transform / dependency    *)
(* pipeline and the synchronous compile / link phase.                      *)
(*                                                                         *)
(* Deferred values follow Promises/A+: the value a `then` handler returns  *)
(* fulfils the derived promise, a handler that throws rejects it.  A run   *)
(* of promise reactions is run to completion before the next caller or     *)
(* collaborator event (see Quiescent).                                     *)
(***************************************************************************)
EXTENDS Integers, Sequences, FiniteSets, TLC

\* ------------------------------------------------------------------ bounds
MaxTasks  == 3      \* deferred operations (fetch / loadPending) ever started
MaxCalls  == 2      \* calls made by the host on the Loader
MaxFaults == 1      \* collaborator or handler failures

NameOrder == <<"a", "n">>
Names     == {NameOrder[i] : i \in 1..Len(NameOrder)}

\* ------------------------------------------------------------------ values
StateTypes == {"loaded", "pending", "loading"}

NoItem    == [kind |-> "none"]
Undefined == [kind |-> "undefined"]

MetaOf(name, deps, form) == [kind |-> "meta", name |-> name, deps |-> deps, form |-> form]
ErrorOf(what, name)      == [kind |-> "error", what |-> what, name |-> name]
DelegateOf(name)         == [kind |-> "delegate", name |-> name]
TaskRef(id)              == [kind |-> "promise", id |-> id]
Settled(state, value)    == [kind |-> "settled", state |-> state, value |-> value]

NoCall == [op |-> "none", name |-> "", ok |-> TRUE, value |-> Undefined]

Return(s, v) == [s |-> s, ok |-> TRUE,  value |-> v]
Throw(s, e)  == [s |-> s, ok |-> FALSE, value |-> e]

\* The rest of a function runs on what a call returned; a throw skips it.
Bind(r, Rest(_, _)) == IF r.ok THEN Rest(r.s, r.value) ELSE r

\* The dependency graphs of the module sources: what the dependency handlers
\* report for each name.  "n" needs "a", which needs nothing.
Graphs ==
  { [k \in Names |-> IF k = "n" THEN <<"a">> ELSE <<>>] }

\* The names the host passes to the Loader.
HostNames == {"a", "n"}

\* load called without a module name.
NoName == ""

\* Where the Loader runs.  linkModule reads an identifier `name` it never
\* declares: in a browser that is the global window.name (the empty string),
\* under nodejs no such global exists and the read throws a ReferenceError.
Hosts == {"browser", "node"}

\* The dependencies a module source declares when its code registers itself
\* (System.register) while the compile collaborator runs it.
Registrations == [k \in Names |-> IF k = "n" THEN <<"a">> ELSE <<>>]

\* ------------------------------------------------------------------ Module
ModuleNew(options) == [kind |-> "module", name |-> options.name, deps |-> options.deps]

MetaIsCompiled(moduleMeta) ==
  moduleMeta.kind = "meta" /\ moduleMeta.form \in {"code", "factory"}

MetaCanCompile(moduleMeta) ==
  ~MetaIsCompiled(moduleMeta) /\ moduleMeta.kind = "meta" /\ moduleMeta.form = "source"

MetaValidateOk(moduleMeta) ==
  MetaIsCompiled(moduleMeta) \/ MetaCanCompile(moduleMeta)

\* The validation stage: fails on an invalid meta (MetaValidateOk); otherwise
\* tells whether the meta still has to go through the pipeline.
metaValidation(moduleMeta) == MetaCanCompile(moduleMeta)

\* ------------------------------------------------------------------ store
EmptyStore == [st \in StateTypes |-> [k \in Names |-> NoItem]]

hasItemWithState(m, st, name) == m[st][name] # NoItem
hasItem(m, name)              == \E st \in StateTypes : m[st][name] # NoItem
getItem(m, st, name)          == m[st][name]

setItemKeep(m, st, name, item) ==
  [m EXCEPT ![st][name] = item]

setItem(m, st, name, item) ==
  [s2 \in StateTypes |->
     [k \in Names |-> IF k = name THEN (IF s2 = st THEN item ELSE NoItem)
                                 ELSE m[s2][k]]]

removeItem(m, name) ==
  [s2 \in StateTypes |-> [k \in Names |-> IF k = name THEN NoItem ELSE m[s2][k]]]

\* ------------------------------------------------------------------ state
VARIABLES
  modules,     \* Loader.modules: the store, state -> name -> item
  cache,       \* the manager's finished-module cache, name -> Module
  tasks,       \* the deferred operations started so far (fetch, loadPending)
  loads,       \* the load() calls made so far and the state of their deferred
  fetchCalls,  \* name -> number of invocations of the fetch collaborator
  completed,   \* names whose fetch + transform + dependency stages succeeded
  produced,    \* names for which the compile collaborator produced a Module
  graph,       \* name -> the deps its dependency handlers report
  host,        \* the environment the Loader runs in
  faults,      \* failures injected so far
  nCalls,      \* host calls made so far
  lastOp       \* the host call made by the latest step, what it returned or threw

\* The plugin registry (the manager's plugins and the services of its stages).
VARIABLES
  plugins,      \* manager.plugins: plugin name -> Plugin
  services,     \* stage -> the plugin delegates registered with its service, in order
  pipelineRun,  \* the runPipeline call in progress
  log,          \* the handler invocations of that call, started and settled
  nPluginCalls, \* host calls made so far on the plugin registry
  pluginOp      \* the latest such call, what it returned or threw

\* The objects the host builds and hands to Meta and Module.
VARIABLES
  heap,         \* the arrays, by reference
  objOp,        \* the latest call of Meta.validate / isCompiled / canCompile or Module
  nObjectCalls  \* such calls and array updates made so far

loaderVars == <<modules, cache, tasks, loads, fetchCalls, completed, produced, graph, host, faults, nCalls, lastOp>>

pluginVars == <<plugins, services, pipelineRun, log, nPluginCalls, pluginOp>>

objectVars == <<heap, objOp, nObjectCalls>>

vars == <<loaderVars, pluginVars, objectVars>>

\* The Loader's state as the operators below thread it; reg tells whether the
\* sources compiled during the current step register themselves, ran lists the
\* stages whose handlers the current step has run, warned the names the
\* current step has written a warning about.
Cur == [modules |-> modules, cache |-> cache, tasks |-> tasks,
        fetchCalls |-> fetchCalls, completed |-> completed, produced |-> produced,
        reg |-> FALSE, ran |-> <<>>, warned |-> <<>>]

CurReg(reg) == [Cur EXCEPT !.reg = reg]

Commit(s) ==
  /\ modules'    = s.modules
  /\ cache'      = s.cache
  /\ tasks'      = s.tasks
  /\ fetchCalls' = s.fetchCalls
  /\ completed'  = s.completed
  /\ produced'   = s.produced

\* ------------------------------------------------------------------ Loader
isLoading(s, name) == hasItemWithState(s.modules, "loading", name)
isPending(s, name) == hasItemWithState(s.modules, "pending", name)
isLoaded(s, name)  == hasItemWithState(s.modules, "loaded", name)
hasModule(s, name) == hasItem(s.modules, name)

getLoading(s, name) == getItem(s.modules, "loading", name)

setLoading(s, name, item) == [s EXCEPT !.modules = setItem(@, "loading", name, item)]
setPending(s, name, item) == [s EXCEPT !.modules = setItem(@, "pending", name, item)]
setLoaded(s, name, item)  == [s EXCEPT !.modules = setItem(@, "loaded", name, item)]
removeModule(s, name)     == [s EXCEPT !.modules = removeItem(@, name)]

managerHasModule(s, name)    == s.cache[name] # NoItem
managerIsModuleCached(s, name) == s.cache[name] # NoItem
managerSetModule(s, mod)     == [s EXCEPT !.cache[mod.name] = mod]

handleErrorRethrow(error) == Settled("rejected", error)

\* handleError returns the error: the derived deferred is fulfilled with it.
handleError(error) == Settled("resolved", error)

forwardError(error) == Settled("rejected", error)

NewTask(kind, name, pc, meta, cont) ==
  [kind |-> kind, name |-> name, pc |-> pc, meta |-> meta, cont |-> cont,
   await |-> <<>>, state |-> "pending", value |-> NoItem, fail |-> NoItem]

fetchNoDedup(s, name) ==
  IF managerHasModule(s, name) THEN Return(s, Settled("resolved", DelegateOf(name)))
  ELSE LET id == Len(s.tasks) + 1
           s1 == [s EXCEPT !.tasks = Append(@, NewTask("fetch", name, "fetch", NoItem, "loaded")),
                           !.fetchCalls[name] = @ + 1]
       IN Return(setLoading(s1, name, TaskRef(id)), TaskRef(id))

fetch(s, name) ==
  IF managerHasModule(s, name) THEN Return(s, Settled("resolved", DelegateOf(name)))
  ELSE IF isLoading(s, name) THEN Return(s, getLoading(s, name))
  ELSE LET id == Len(s.tasks) + 1
           s1 == [s EXCEPT !.tasks = Append(@, NewTask("fetch", name, "fetch", NoItem, "loaded")),
                           !.fetchCalls[name] = @ + 1]
       IN Return(setLoading(s1, name, TaskRef(id)), TaskRef(id))

registerSwapped(s, name, deps) ==
  IF managerHasModule(s, name) \/ hasModule(s, name)
  THEN Throw(s, ErrorOf("registered", name))
  ELSE LET moduleMeta == MetaOf(name, deps, "factory")
       IN IF Len(deps) > 0 THEN Return(setLoaded(s, name, moduleMeta), Undefined)
                           ELSE Return(setPending(s, name, moduleMeta), Undefined)

registerNoStoreCheck(s, name, deps) ==
  IF managerHasModule(s, name)
  THEN Throw(s, ErrorOf("registered", name))
  ELSE LET moduleMeta == MetaOf(name, deps, "factory")
       IN IF Len(deps) > 0 THEN Return(setPending(s, name, moduleMeta), Undefined)
                           ELSE Return(setLoaded(s, name, moduleMeta), Undefined)

register(s, name, deps) ==
  IF managerHasModule(s, name) \/ hasModule(s, name)
  THEN Throw(s, ErrorOf("registered", name))
  ELSE LET moduleMeta == MetaOf(name, deps, "factory")
       IN IF Len(deps) > 0 THEN Return(setPending(s, name, moduleMeta), Undefined)
                           ELSE Return(setLoaded(s, name, moduleMeta), Undefined)

\* The compile collaborator: a Module from a compile-ready meta.  Compiling a
\* source runs the module's code, which may register the module itself.
SelfRegister(s, moduleMeta) ==
  IF s.reg /\ moduleMeta.form = "source"
  THEN register(s, moduleMeta.name, Registrations[moduleMeta.name])
  ELSE Return(s, Undefined)

metaCompilation(s, moduleMeta) ==
  IF MetaValidateOk(moduleMeta)
  THEN Bind(SelfRegister([s EXCEPT !.produced = @ \cup {moduleMeta.name}], moduleMeta),
            LAMBDA s1, v : Return(s1, ModuleNew(moduleMeta)))
  ELSE Throw(s, ErrorOf("compile", ""))

compileModuleMetaKeep(s, name) ==
  IF isLoaded(s, name)
  THEN metaCompilation(s, getItem(s.modules, "loaded", name))
  ELSE IF managerIsModuleCached(s, name) THEN Throw(s, ErrorOf("cached", name))
  ELSE Throw(s, ErrorOf("notloaded", name))

compileModuleMetaSwapped(s, name) ==
  IF isLoaded(s, name)
  THEN metaCompilation(removeModule(s, name), getItem(s.modules, "loaded", name))
  ELSE IF managerIsModuleCached(s, name) THEN Throw(s, ErrorOf("notloaded", name))
  ELSE Throw(s, ErrorOf("cached", name))

compileModuleMeta(s, name) ==
  IF isLoaded(s, name)
  THEN metaCompilation(removeModule(s, name), getItem(s.modules, "loaded", name))
  ELSE IF managerIsModuleCached(s, name) THEN Throw(s, ErrorOf("cached", name))
  ELSE Throw(s, ErrorOf("notloaded", name))

RECURSIVE buildModule(_, _)
RECURSIVE linkDeps(_, _)

\* manager.getModule: the cached Module, or the loaded meta built on demand.
managerGetModule(s, name) ==
  IF managerIsModuleCached(s, name) THEN Return(s, s.cache[name])
  ELSE IF isLoaded(s, name) THEN buildModule(s, name)
  ELSE Throw(s, ErrorOf("link", name))

linkDeps(s, deps) ==
  IF deps = <<>> THEN Return(s, Undefined)
  ELSE Bind(managerGetModule(s, Head(deps)), LAMBDA s1, v : linkDeps(s1, Tail(deps)))

\* The linker collaborator: resolves deps into Modules, then caches the Module.
moduleLinker(s, mod) ==
  Bind(linkDeps(s, mod.deps), LAMBDA s1, v : Return(managerSetModule(s1, mod), mod))

\* The read of the undeclared identifier `name`: its value, or a ReferenceError.
GlobalName ==
  IF host = "browser" THEN [ok |-> TRUE, value |-> NoName]
  ELSE [ok |-> FALSE, value |-> ErrorOf("reference", "name")]

\* console.warn about a name that is dynamically registered while loading.
warn(s, name) == [s EXCEPT !.warned = Append(@, name)]

linkModule(s, mod) ==
  IF ~GlobalName.ok THEN Throw(s, GlobalName.value)
  ELSE IF mod.kind # "module" THEN Throw(s, ErrorOf("notmodule", GlobalName.value))
  ELSE moduleLinker(IF GlobalName.value \in Names /\ isPending(s, GlobalName.value)
                    THEN warn(s, GlobalName.value) ELSE s, mod)

buildModuleCompileOnly(s, name) == compileModuleMeta(s, name)

buildModule(s, name) ==
  Bind(compileModuleMeta(s, name), linkModule)

loadPendingKeep(s, name, cont) ==
  IF isPending(s, name)
  THEN LET moduleMeta == getItem(s.modules, "pending", name)
           id == Len(s.tasks) + 1
       IN Return([s EXCEPT !.tasks = Append(@, NewTask("pending", name, "dependency", moduleMeta, cont))],
                 TaskRef(id))
  ELSE IF managerIsModuleCached(s, name) THEN Throw(s, ErrorOf("cached", name))
  ELSE Throw(s, ErrorOf("notpending", name))

loadPending(s, name, cont) ==
  IF isPending(s, name)
  THEN LET moduleMeta == getItem(s.modules, "pending", name)
           id == Len(s.tasks) + 1
           s1 == removeModule(s, name)
       IN Return([s1 EXCEPT !.tasks = Append(@, NewTask("pending", name, "dependency", moduleMeta, cont))],
                 TaskRef(id))
  ELSE IF managerIsModuleCached(s, name) THEN Throw(s, ErrorOf("cached", name))
  ELSE Throw(s, ErrorOf("notpending", name))

\* A name that is neither loaded nor pending is answered from the cache.
asyncBuildModuleFromCache(s, name) ==
  Bind(IF isLoaded(s, name) THEN compileModuleMeta(s, name) ELSE Return(s, Undefined),
       LAMBDA s1, mod :
         IF isPending(s1, name) THEN loadPending(s1, name, "link")
         ELSE IF mod = Undefined THEN managerGetModule(s1, name)
         ELSE linkModule(s1, mod))

asyncBuildModuleLinkNow(s, name) ==
  Bind(IF isLoaded(s, name) THEN compileModuleMeta(s, name) ELSE Return(s, Undefined),
       LAMBDA s1, mod :
         IF isPending(s1, name)
         THEN linkModule(removeModule(s1, name), ModuleNew(getItem(s1.modules, "pending", name)))
         ELSE linkModule(s1, mod))

asyncBuildModule(s, name) ==
  Bind(IF isLoaded(s, name) THEN compileModuleMeta(s, name) ELSE Return(s, Undefined),
       LAMBDA s1, mod :
         IF isPending(s1, name) THEN loadPending(s1, name, "link")
         ELSE linkModule(s1, mod))

\* ------------------------------------------------------------------ deferreds
IsSettled(s, ref) ==
  ref.kind = "settled" \/ (ref.kind = "promise" /\ s.tasks[ref.id].state # "pending")

Outcome(s, ref) ==
  IF ref.kind = "settled" THEN ref
  ELSE Settled(s.tasks[ref.id].state, s.tasks[ref.id].value)

\* Promise.all over the deferreds of the dependencies.
AllOutcome(s, refs) ==
  LET bad == {i \in 1..Len(refs) : Outcome(s, refs[i]).state = "rejected"}
  IN IF bad = {} THEN Settled("resolved", Undefined)
     ELSE Outcome(s, refs[CHOOSE i \in bad : \A j \in bad : i <= j])

SettleTask(s, id, out) ==
  [s EXCEPT !.tasks[id].state = out.state, !.tasks[id].value = out.value,
            !.tasks[id].pc = "done"]

\* fetch: fetchModuleMeta(...).then(moduleMetaReady, handleError), given the
\* outcome p1 of fetchModuleMeta.
FinishFetch(s, id, p1) ==
  LET name == s.tasks[id].name
  IN IF p1.state = "resolved"
     THEN LET s1 == setLoaded(s, name, p1.value)
              s2 == [s1 EXCEPT !.completed =
                        IF p1.value.kind = "meta" THEN @ \cup {name} ELSE @]
          IN SettleTask(s2, id, Settled("resolved", DelegateOf(name)))
     ELSE SettleTask(s, id, handleError(p1.value))

\* loadPending(...).then(loadedPendingModuleMeta, forwardError), or the bare
\* deferred of loadPending, given the outcome of metaDependencies.
FinishPending(s, id, res) ==
  IF s.tasks[id].cont = "link"
  THEN IF res.state = "resolved"
       THEN LET r == linkModule(s, ModuleNew(res.value))
            IN SettleTask(r.s, id, Settled(IF r.ok THEN "resolved" ELSE "rejected", r.value))
       ELSE SettleTask(s, id, forwardError(res.value))
  ELSE SettleTask(s, id, res)

\* The failure of a stage is taken for its result.
StageFailedSwallowed(s, id, error) ==
  LET s1 == [s EXCEPT !.tasks[id].fail = error]
  IN IF s.tasks[id].kind = "fetch"
     THEN FinishFetch(s1, id, handleError(error))
     ELSE FinishPending(s1, id, handleError(error))

\* A failure in the transform or dependency stage of task id.
StageFailed(s, id, error) ==
  LET s1 == [s EXCEPT !.tasks[id].fail = error]
  IN IF s.tasks[id].kind = "fetch"
     THEN FinishFetch(s1, id, forwardError(error))
     ELSE FinishPending(s1, id, forwardError(error))

RECURSIVE fetchAll(_, _, _)
fetchAll(s, deps, refs) ==
  IF deps = <<>> THEN [s |-> s, refs |-> refs]
  ELSE LET r == fetch(s, Head(deps))
       IN fetchAll(r.s, Tail(deps), Append(refs, r.value))

\* ------------------------------------------------------------------ transform
\* JavaScript values of the fields of a meta object handed to transform.
Str(text)  == [kind |-> "string", text |-> text]
Arr(items) == [kind |-> "array", items |-> items]

\* A meta object as the host builds it; ref is the identity of the object.
HostMeta(ref, name, source, deps) ==
  [kind |-> "meta", ref |-> ref, name |-> name, source |-> source, deps |-> deps]

\* manager.pipelines.transform.runAll: the transform handlers of the matching
\* plugins run on the meta object and rewrite its source in place; run tells
\* whether no plugin matches ("none"), the handlers succeed or one fails.
transformRunAll(s, moduleMeta, run) ==
  IF run = "none" THEN Return(s, Settled("resolved", Undefined))
  ELSE LET s1 == [s EXCEPT !.ran = Append(@, "transform")]
       IN IF run = "ok"
          THEN Return(s1, Settled("resolved",
                 [moduleMeta EXCEPT !.source = Str("t(" \o @.text \o ")")]))
          ELSE Return(s1, Settled("rejected", ErrorOf("transform", moduleMeta.name)))

\* MetaTransform: runAll(moduleMeta).then(transformationFinished, forwardError);
\* the value is the outcome of the deferred it returns.
metaTransform(s, moduleMeta, run) ==
  Bind(transformRunAll(s, moduleMeta, run),
       LAMBDA s1, out :
         IF out.state = "rejected" THEN Return(s1, forwardError(out.value))
         ELSE Return(s1, Settled("resolved",
                IF out.value = Undefined THEN moduleMeta ELSE out.value)))

transformResetDeps(s, moduleMeta, run) ==
  IF moduleMeta = Undefined THEN Throw(s, ErrorOf("nometa", NoName))
  ELSE IF moduleMeta.source.kind # "string" THEN Throw(s, ErrorOf("nosource", moduleMeta.name))
  ELSE metaTransform(s, [moduleMeta EXCEPT !.deps = Arr(<<>>)], run)

\* The whole pipeline instead of the transform stage: the dependency stage
\* runs as well and the dependencies it declares are fetched.
transformViaPipeline(s, moduleMeta, run) ==
  IF moduleMeta = Undefined THEN Throw(s, ErrorOf("nometa", NoName))
  ELSE IF moduleMeta.source.kind # "string" THEN Throw(s, ErrorOf("nosource", moduleMeta.name))
  ELSE Bind(metaTransform(s, [moduleMeta EXCEPT !.deps = IF @ = Undefined THEN Arr(<<>>) ELSE @], run),
            LAMBDA s1, out :
              IF out.state = "rejected" THEN Return(s1, out)
              ELSE Return(fetchAll([s1 EXCEPT !.ran = Append(@, "dependency")],
                                   out.value.deps.items, <<>>).s, out))

transform(s, moduleMeta, run) ==
  IF moduleMeta = Undefined THEN Throw(s, ErrorOf("nometa", NoName))
  ELSE IF moduleMeta.source.kind # "string" THEN Throw(s, ErrorOf("nosource", moduleMeta.name))
  ELSE metaTransform(s, [moduleMeta EXCEPT !.deps = IF @ = Undefined THEN Arr(<<>>) ELSE @], run)

\* ------------------------------------------------------------------ plugins
MaxPluginCalls == 3   \* calls made by the host on the plugin registry

\* The pipelines, in the order they are executed.
Kinds == <<"fetch", "transform", "dependency", "compile">>
ServiceKinds == {Kinds[i] : i \in 1..Len(Kinds)}

PluginNames == {"less", "text"}

\* What a handler list may hold: a function, {handler, options}, null.
Fn(f)               == [kind |-> "function", f |-> f]
HandlerEntry(f, o)  == [kind |-> "entry", handler |-> Fn(f), options |-> o]
Null                == [kind |-> "null"]

\* A glob "**/*.ext" and a path "base.ext"; the glob matching itself is a
\* capability the registry consumes.
Glob(ext)       == [kind |-> "glob", ext |-> ext]
Path(base, ext) == [kind |-> "path", base |-> base, ext |-> ext]
GlobMatchAny(pattern, path) == TRUE
GlobMatch(pattern, path) == path.kind = "path" /\ path.ext = pattern.ext

\* new Plugin(name): no matching rules, no handlers, no delegate registered.
PluginNew(name) ==
  [kind |-> "plugin", name |-> name, matches |-> {},
   handlers |-> [k \in ServiceKinds |-> Undefined], delegates |-> {}]

\* The registry as the operators below thread it.
Registry == [plugins |-> plugins, services |-> services]

\* bitloader.plugin(name): the plugin of that name, created when there is none.
getPlugin(p, name) ==
  IF p.plugins[name] = NoItem THEN [p EXCEPT !.plugins[name] = PluginNew(name)] ELSE p

\* addMatchingRules(ruleName, patterns): the rule of that name is replaced.
addMatchingRules(p, name, patterns) ==
  Return([getPlugin(p, name) EXCEPT !.plugins[name].matches = patterns], Undefined)

IsHandler(item) ==
  \/ item.kind = "function"
  \/ item.kind = "entry" /\ item.handler.kind = "function"

\* A list entry as the plugin keeps it: {handler, options}.
configureHandler(item) ==
  IF item.kind = "function" THEN [handler |-> item, options |-> Undefined]
  ELSE [handler |-> item.handler, options |-> item.options]

HandlerItems(handlers) == IF handlers.kind = "array" THEN handlers.items ELSE <<handlers>>

\* services[kind].use(delegate), once per plugin and kind.
registerDelegate(p, name, kind) ==
  IF kind \in p.plugins[name].delegates THEN p
  ELSE [p EXCEPT !.services[kind] = Append(@, name),
                 !.plugins[name].delegates = @ \cup {kind}]

\* The valid entries before the first invalid one are registered.
addHandlersPartial(p, name, kind, handlers) ==
  LET items == HandlerItems(handlers)
      bad   == {i \in 1..Len(items) : ~IsHandler(items[i])}
      upto  == IF bad = {} THEN Len(items) ELSE (CHOOSE i \in bad : \A j \in bad : i <= j) - 1
      p1    == [p EXCEPT !.plugins[name].handlers[kind] =
                  Arr([i \in 1..upto |-> configureHandler(items[i])])]
  IN IF kind \notin ServiceKinds THEN Throw(p, ErrorOf("noservice", kind))
     ELSE IF bad # {} THEN Throw(IF upto > 0 THEN registerDelegate(p1, name, kind) ELSE p,
                                 ErrorOf("handler", name))
     ELSE Return(registerDelegate(p1, name, kind), Undefined)

\* The new handlers are appended to those of the earlier calls.
addHandlersAppend(p, name, kind, handlers) ==
  LET items == HandlerItems(handlers)
      old   == IF p.plugins[name].handlers[kind] = Undefined THEN <<>>
               ELSE p.plugins[name].handlers[kind].items
      p1    == [p EXCEPT !.plugins[name].handlers[kind] =
                  Arr(old \o [i \in 1..Len(items) |-> configureHandler(items[i])])]
  IN IF kind \notin ServiceKinds THEN Throw(p, ErrorOf("noservice", kind))
     ELSE IF \E i \in 1..Len(items) : ~IsHandler(items[i]) THEN Throw(p, ErrorOf("handler", name))
     ELSE Return(registerDelegate(p1, name, kind), Undefined)

\* The handlers of the other kinds are dropped.
addHandlersResetOthers(p, name, kind, handlers) ==
  LET items == HandlerItems(handlers)
      p1    == [p EXCEPT !.plugins[name].handlers =
                  [k \in ServiceKinds |->
                     IF k = kind THEN Arr([i \in 1..Len(items) |-> configureHandler(items[i])])
                     ELSE Undefined]]
  IN IF kind \notin ServiceKinds THEN Throw(p, ErrorOf("noservice", kind))
     ELSE IF \E i \in 1..Len(items) : ~IsHandler(items[i]) THEN Throw(p, ErrorOf("handler", name))
     ELSE Return(registerDelegate(p1, name, kind), Undefined)

\* addHandlers(kind, handlers) on the plugin called name, which exists: every
\* entry is checked first; the list of the kind becomes the handlers of this
\* call and the plugin's delegate is registered with the service of the kind.
addHandlers(p, name, kind, handlers) ==
  LET items == HandlerItems(handlers)
      p1    == [p EXCEPT !.plugins[name].handlers[kind] =
                  Arr([i \in 1..Len(items) |-> configureHandler(items[i])])]
  IN IF kind \notin ServiceKinds THEN Throw(p, ErrorOf("noservice", kind))
     ELSE IF \E i \in 1..Len(items) : ~IsHandler(items[i]) THEN Throw(p, ErrorOf("handler", name))
     ELSE Return(registerDelegate(p1, name, kind), Undefined)

\* The discriminant the matching rules are applied to: the path, else the name.
Discriminant(moduleMeta) ==
  IF moduleMeta.path # Undefined THEN moduleMeta.path ELSE moduleMeta.name

RulesMatchNeedsRule(plugin, moduleMeta) ==
  \E pattern \in plugin.matches : GlobMatch(pattern, Discriminant(moduleMeta))

\* The matching rules of a plugin admit the meta: it has none, or one of its
\* patterns matches.
RulesMatch(plugin, moduleMeta) ==
  \/ plugin.matches = {}
  \/ \E pattern \in plugin.matches : GlobMatch(pattern, Discriminant(moduleMeta))

\* The meta names the plugin in its explicit plugins list.
Listed(plugin, moduleMeta) ==
  /\ moduleMeta.plugins # Undefined
  /\ \E i \in 1..Len(moduleMeta.plugins.items) : moduleMeta.plugins.items[i] = plugin.name

canExecuteRulesOnly(plugin, moduleMeta) == RulesMatch(plugin, moduleMeta)

canExecuteListedToo(plugin, moduleMeta) ==
  Listed(plugin, moduleMeta) \/ RulesMatch(plugin, moduleMeta)

\* Whether the handlers of a plugin run for a meta: with an explicit plugins
\* list the listed plugins do, without one those whose rules match.
canExecute(plugin, moduleMeta) ==
  IF moduleMeta.plugins # Undefined
  THEN Listed(plugin, moduleMeta)
  ELSE RulesMatch(plugin, moduleMeta)

Invocation(kind, name, entry) ==
  [stage |-> kind, plugin |-> name, handler |-> entry.handler, options |-> entry.options]

Reverse(seq) == [i \in 1..Len(seq) |-> seq[Len(seq) + 1 - i]]

pluginHandlersReversed(p, name, kind) ==
  LET h == p.plugins[name].handlers[kind]
  IN IF h = Undefined THEN <<>>
     ELSE Reverse([i \in 1..Len(h.items) |-> Invocation(kind, name, h.items[i])])

\* The invocations a plugin's delegate makes for a stage, in order.
pluginHandlers(p, name, kind) ==
  LET h == p.plugins[name].handlers[kind]
  IN IF h = Undefined THEN <<>>
     ELSE [i \in 1..Len(h.items) |-> Invocation(kind, name, h.items[i])]

RECURSIVE serviceHandlers(_, _, _, _)
\* The invocations of a stage: the delegates registered with its service, in
\* registration order, those of the plugins that can execute the meta.
serviceHandlers(p, kind, moduleMeta, i) ==
  IF i > Len(p.services[kind]) THEN <<>>
  ELSE LET name == p.services[kind][i]
       IN (IF canExecute(p.plugins[name], moduleMeta) THEN pluginHandlers(p, name, kind) ELSE <<>>)
          \o serviceHandlers(p, kind, moduleMeta, i + 1)

RECURSIVE runPipeline(_, _, _)
\* runPipeline(moduleMeta): the invocations of the stages from the k-th on.
runPipeline(p, moduleMeta, k) ==
  IF k > Len(Kinds) THEN <<>>
  ELSE serviceHandlers(p, Kinds[k], moduleMeta, 1) \o runPipeline(p, moduleMeta, k + 1)

NoRun == [state |-> "idle", meta |-> Undefined, todo |-> <<>>, busy |-> NoItem]

NoPluginCall == [op |-> "none", ok |-> TRUE, value |-> Undefined]

\* The arrays the host has built: ["a"] and [].
HostArrays == << <<"a">>, <<>> >>

\* ------------------------------------------------------------------ Init
\* The state after construction, for the dependency graphs of the sources the
\* host serves.
InitWith(graphs) ==
  /\ modules    = EmptyStore
  /\ cache      = [k \in Names |-> NoItem]
  /\ tasks      = <<>>
  /\ loads      = <<>>
  /\ fetchCalls = [k \in Names |-> 0]
  /\ completed  = {}
  /\ produced   = {}
  /\ graph      \in graphs
  /\ host       \in Hosts
  /\ faults     = 0
  /\ nCalls     = 0
  /\ lastOp     = NoCall
  /\ plugins    = [k \in PluginNames |-> NoItem]
  /\ services   = [k \in ServiceKinds |-> <<>>]
  /\ pipelineRun = NoRun
  /\ log        = <<>>
  /\ nPluginCalls = 0
  /\ pluginOp   = NoPluginCall
  /\ heap       = HostArrays
  /\ objOp      = NoPluginCall
  /\ nObjectCalls = 0

Init == InitWith(Graphs)

\* ------------------------------------------------------------------ scheduling
DepsReady(id) ==
  /\ tasks[id].pc = "waitdeps"
  /\ \A i \in 1..Len(tasks[id].await) : IsSettled(Cur, tasks[id].await[i])

LoadReady(i) ==
  /\ loads[i].state = "waiting"
  /\ IsSettled(Cur, loads[i].await)

\* No promise reaction is queued: callers and collaborators run only then.
Quiescent ==
  /\ \A id \in 1..Len(tasks) : ~DepsReady(id)
  /\ \A i \in 1..Len(loads) : ~LoadReady(i)

CanCall == Quiescent /\ nCalls < MaxCalls

\* A step of a collaborator or of a promise reaction is not a host call.
NotACall == nCalls' = nCalls /\ lastOp' = NoCall

Called(op, name, r) ==
  /\ nCalls' = nCalls + 1
  /\ lastOp' = [op |-> op, name |-> name, ok |-> r.ok, value |-> r.value]

\* The state of a name as a caller finds it.
StateOf(s, name) ==
  IF managerHasModule(s, name) THEN "cached"
  ELSE IF isLoading(s, name) THEN "loading"
  ELSE IF isPending(s, name) THEN "pending"
  ELSE IF isLoaded(s, name) THEN "loaded"
  ELSE "unknown"

\* The deferred returned by a load call; pre and refetched record the state
\* of the name at the call and whether the call invoked the fetch collaborator.
NewLoad(name, await, phase, state, value, pre, refetched) ==
  [name |-> name, await |-> await, phase |-> phase, state |-> state, value |-> value,
   pre |-> pre, refetched |-> refetched]

\* ------------------------------------------------------------------ host calls
loadNoCacheCheck(s, name) ==
  IF name = NoName THEN Return(s, Settled("rejected", ErrorOf("noname", NoName)))
  ELSE IF isLoaded(s, name) \/ isPending(s, name)
  THEN asyncBuildModule(s, name)
  ELSE fetch(s, name)

\* A load that starts a fetch of its own while the name is loading.
loadNoDedup(s, name) ==
  IF name = NoName THEN Return(s, Settled("rejected", ErrorOf("noname", NoName)))
  ELSE IF managerHasModule(s, name) THEN Return(s, s.cache[name])
  ELSE IF isLoaded(s, name) \/ isPending(s, name)
  THEN asyncBuildModule(s, name)
  ELSE fetchNoDedup(s, name)

\* The synchronous part of Loader.load; the deferred it returns is the new
\* entry of loads.
load(s, name) ==
  IF name = NoName THEN Return(s, Settled("rejected", ErrorOf("noname", NoName)))
  ELSE IF managerHasModule(s, name) THEN Return(s, s.cache[name])
  ELSE IF isLoaded(s, name) \/ isPending(s, name)
  THEN asyncBuildModule(s, name)
  ELSE fetch(s, name)

Load(name, reg) ==
  /\ CanCall
  /\ LET direct == name = NoName \/ managerHasModule(Cur, name) \/ isLoaded(Cur, name) \/ isPending(Cur, name)
         r == load(CurReg(reg), name)
         pre == IF name = NoName THEN "unknown" ELSE StateOf(Cur, name)
         re  == name # NoName /\ r.s.fetchCalls[name] # fetchCalls[name]
         entry ==
           IF ~r.ok THEN NewLoad(name, NoItem, "build", "thrown", r.value, pre, re)
           ELSE IF r.value.kind = "settled"
           THEN NewLoad(name, NoItem, "build", r.value.state, r.value.value, pre, re)
           ELSE IF r.value.kind = "module"
           THEN NewLoad(name, NoItem, "build", "resolved", r.value, pre, re)
           ELSE NewLoad(name, r.value, IF direct THEN "build" ELSE "fetch", "waiting", NoItem, pre, re)
     IN /\ Len(r.s.tasks) <= MaxTasks
        /\ Commit(r.s)
        /\ loads' = Append(loads, entry)
        /\ Called("load", name, r)
  /\ UNCHANGED <<graph, host, faults, pluginVars, objectVars>>

Fetch(name) ==
  /\ CanCall
  /\ LET r == fetch(Cur, name)
     IN /\ Len(r.s.tasks) <= MaxTasks
        /\ Commit(r.s)
        /\ Called("fetch", name, r)
  /\ UNCHANGED <<loads, graph, host, faults, pluginVars, objectVars>>

Register(name, deps) ==
  /\ CanCall
  /\ LET r == register(Cur, name, deps)
     IN /\ Commit(r.s)
        /\ lastOp' = [op |-> "register", name |-> name, ok |-> r.ok, value |-> r.value,
                      deps |-> deps]
        /\ nCalls' = nCalls + 1
  /\ UNCHANGED <<loads, graph, host, faults, pluginVars, objectVars>>

CompileModuleMeta(name, reg) ==
  /\ CanCall
  /\ LET r == compileModuleMeta(CurReg(reg), name)
     IN Commit(r.s) /\ Called("compileModuleMeta", name, r)
  /\ UNCHANGED <<loads, graph, host, faults, pluginVars, objectVars>>

BuildModule(name, reg) ==
  /\ CanCall
  /\ LET r == buildModule(CurReg(reg), name)
     IN Commit(r.s) /\ Called("buildModule", name, r)
  /\ UNCHANGED <<loads, graph, host, faults, pluginVars, objectVars>>

AsyncBuildModule(name, reg) ==
  /\ CanCall
  /\ LET r == asyncBuildModule(CurReg(reg), name)
     IN /\ Len(r.s.tasks) <= MaxTasks
        /\ Commit(r.s)
        /\ Called("asyncBuildModule", name, r)
  /\ UNCHANGED <<loads, graph, host, faults, pluginVars, objectVars>>

\* What the host passes to linkModule: nothing, a plain meta object, a Module.
LinkInputs ==
  {Undefined, MetaOf("a", <<>>, "factory"), ModuleNew(MetaOf("a", <<>>, "factory"))}

LinkModule(mod, reg) ==
  /\ CanCall
  /\ LET r == linkModule(CurReg(reg), mod)
     IN /\ Commit(r.s)
        /\ lastOp' = [op |-> "linkModule", name |-> NoName, ok |-> r.ok, value |-> r.value,
                      arg |-> mod, warned |-> r.s.warned]
        /\ nCalls' = nCalls + 1
  /\ UNCHANGED <<loads, graph, host, faults, pluginVars, objectVars>>

LoadPending(name) ==
  /\ CanCall
  /\ LET r == loadPending(Cur, name, "none")
     IN /\ Len(r.s.tasks) <= MaxTasks
        /\ Commit(r.s)
        /\ Called("loadPending", name, r)
  /\ UNCHANGED <<loads, graph, host, faults, pluginVars, objectVars>>

\* What the host passes to transform: nothing, a meta without a source, metas
\* with a string source (without and with deps).
TransformInputs ==
  {Undefined,
   HostMeta(1, "a", Undefined, Undefined),
   HostMeta(1, "a", Str("x"), Undefined),
   HostMeta(1, "n", Str(""), Arr(<<"a">>))}

TransformRuns == {"none", "ok", "fail"}

Transform(moduleMeta, run) ==
  /\ CanCall
  /\ LET r == transform(Cur, moduleMeta, run)
     IN /\ Len(r.s.tasks) <= MaxTasks
        /\ Commit(r.s)
        /\ lastOp' = [op |-> "transform", name |-> NoName, ok |-> r.ok, value |-> r.value,
                      arg |-> moduleMeta, run |-> run, ran |-> r.s.ran]
        /\ nCalls' = nCalls + 1
        /\ IF r.ok /\ r.value.state = "rejected"
           THEN faults < MaxFaults /\ faults' = faults + 1
           ELSE UNCHANGED faults
  /\ UNCHANGED <<loads, graph, host, pluginVars, objectVars>>

\* ------------------------------------------------------------------ pipeline
pipelineSwapped == <<"dependency", "transform">>

\* Loader: this.pipeline = new Pipeline([metaTransform, metaDependencies]).
pipeline == <<"transform", "dependency">>

\* Pipeline.run: the stage that runs once stage has succeeded, "done" after
\* the last one.
StageAfter(stage) ==
  LET i == CHOOSE k \in 1..Len(pipeline) : pipeline[k] = stage
  IN IF i < Len(pipeline) THEN pipeline[i + 1] ELSE "done"

\* ------------------------------------------------------------------ collaborators
FetchForms == {"source", "code", "invalid"}

\* The fetch collaborator settles; on success pipelineModuleMeta starts.
FetchSettle(id, form) ==
  /\ Quiescent
  /\ id \in 1..Len(tasks)
  /\ tasks[id].pc = "fetch"
  /\ LET name == tasks[id].name
         moduleMeta == MetaOf(name, <<>>, form)
     IN IF form = "fail"
        THEN /\ faults < MaxFaults
             /\ faults' = faults + 1
             /\ LET e  == ErrorOf("fetch", name)
                    s1 == [Cur EXCEPT !.tasks[id].fail = e]
                IN Commit(FinishFetch(s1, id, handleError(e)))
        ELSE IF ~MetaValidateOk(moduleMeta)
        THEN /\ faults < MaxFaults
             /\ faults' = faults + 1
             /\ Commit(FinishFetch([Cur EXCEPT !.tasks[id].fail = ErrorOf("validate", name)],
                                   id, Settled("rejected", ErrorOf("validate", name))))
        ELSE /\ UNCHANGED faults
             /\ IF ~metaValidation(moduleMeta)
                THEN Commit(FinishFetch(Cur, id, Settled("resolved", moduleMeta)))
                ELSE Commit([Cur EXCEPT !.tasks[id].pc = pipeline[1],
                                        !.tasks[id].meta = moduleMeta])
  /\ NotACall
  /\ UNCHANGED <<loads, graph, host, pluginVars, objectVars>>

\* The transform stage (MetaTransform) settles.
TransformSettle(id, ok) ==
  /\ Quiescent
  /\ id \in 1..Len(tasks)
  /\ tasks[id].pc = "transform"
  /\ IF ok
     THEN /\ IF StageAfter("transform") = "done"
             THEN Commit(FinishFetch(Cur, id, Settled("resolved", tasks[id].meta)))
             ELSE Commit([Cur EXCEPT !.tasks[id].pc = StageAfter("transform")])
          /\ UNCHANGED faults
     ELSE /\ faults < MaxFaults
          /\ faults' = faults + 1
          /\ Commit(StageFailed(Cur, id, ErrorOf("transform", tasks[id].name)))
  /\ NotACall
  /\ UNCHANGED <<loads, graph, host, pluginVars, objectVars>>

\* The dependency handlers settle; the dependencies they declared are fetched.
DependencySettle(id, ok) ==
  /\ Quiescent
  /\ id \in 1..Len(tasks)
  /\ tasks[id].pc = "dependency"
  /\ IF ok
     THEN /\ UNCHANGED faults
          /\ LET newDeps == IF tasks[id].meta.form = "source" THEN graph[tasks[id].name]
                            ELSE tasks[id].meta.deps
                 r == fetchAll(Cur, newDeps, <<>>)
             IN /\ Len(r.s.tasks) <= MaxTasks
                /\ Commit([r.s EXCEPT !.tasks[id].pc = "waitdeps",
                                      !.tasks[id].meta.deps = newDeps,
                                      !.tasks[id].await = r.refs])
     ELSE /\ faults < MaxFaults
          /\ faults' = faults + 1
          /\ Commit(StageFailed(Cur, id, ErrorOf("dependency", tasks[id].name)))
  /\ NotACall
  /\ UNCHANGED <<loads, graph, host, pluginVars, objectVars>>

\* ------------------------------------------------------------------ reactions
\* Every dependency's deferred has settled: the dependency stage is over.
DepsSettled(id, reg) ==
  /\ id \in 1..Len(tasks)
  /\ DepsReady(id)
  /\ LET all == AllOutcome(Cur, tasks[id].await)
         res == IF all.state = "resolved" THEN Settled("resolved", tasks[id].meta)
                ELSE forwardError(all.value)
     IN IF tasks[id].kind = "fetch"
        THEN IF res.state = "resolved" /\ StageAfter("dependency") # "done"
             THEN Commit([Cur EXCEPT !.tasks[id].pc = StageAfter("dependency")])
             ELSE Commit(FinishFetch(Cur, id, res))
        ELSE Commit(FinishPending(CurReg(reg), id, res))
  /\ NotACall
  /\ UNCHANGED <<loads, graph, host, faults, pluginVars, objectVars>>

\* load: fetch(...).then(loadedPendingModuleMeta, forwardError)
LoadContinue(i, reg) ==
  /\ i \in 1..Len(loads)
  /\ LoadReady(i)
  /\ LET out  == Outcome(Cur, loads[i].await)
         name == loads[i].name
     IN IF loads[i].phase = "build"
        THEN /\ loads' = [loads EXCEPT ![i].state = out.state, ![i].value = out.value]
             /\ UNCHANGED <<modules, cache, tasks, fetchCalls, completed, produced>>
        ELSE IF out.state = "rejected"
        THEN /\ loads' = [loads EXCEPT ![i].state = forwardError(out.value).state,
                                       ![i].value = forwardError(out.value).value]
             /\ UNCHANGED <<modules, cache, tasks, fetchCalls, completed, produced>>
        ELSE LET r == asyncBuildModule(CurReg(reg), name)
             IN /\ Len(r.s.tasks) <= MaxTasks
                /\ Commit(r.s)
                /\ loads' =
                     IF ~r.ok THEN [loads EXCEPT ![i].state = "rejected", ![i].value = r.value]
                     ELSE IF r.value.kind = "module"
                     THEN [loads EXCEPT ![i].state = "resolved", ![i].value = r.value]
                     ELSE [loads EXCEPT ![i].await = r.value, ![i].phase = "build"]
  /\ NotACall
  /\ UNCHANGED <<graph, host, faults, pluginVars, objectVars>>

\* ------------------------------------------------------------------ Next
Next ==
  \/ \E name \in HostNames \cup {NoName} : \E reg \in BOOLEAN : Load(name, reg)
  \/ \E name \in HostNames : Fetch(name)
  \/ \E name \in HostNames : \E deps \in {<<>>, graph[name]} : Register(name, deps)
  \/ \E name \in HostNames : \E reg \in BOOLEAN : CompileModuleMeta(name, reg)
  \/ \E name \in HostNames : \E reg \in BOOLEAN : BuildModule(name, reg)
  \/ \E name \in HostNames : \E reg \in BOOLEAN : AsyncBuildModule(name, reg)
  \/ \E name \in HostNames : LoadPending(name)
  \/ \E mod \in LinkInputs : \E reg \in BOOLEAN : LinkModule(mod, reg)
  \/ \E id \in 1..MaxTasks : \E form \in FetchForms \cup {"fail"} : FetchSettle(id, form)
  \/ \E id \in 1..MaxTasks : \E ok \in BOOLEAN : TransformSettle(id, ok)
  \/ \E id \in 1..MaxTasks : \E ok \in BOOLEAN : DependencySettle(id, ok)
  \/ \E id \in 1..MaxTasks : \E reg \in BOOLEAN : DepsSettled(id, reg)
  \/ \E i \in 1..MaxCalls : \E reg \in BOOLEAN : LoadContinue(i, reg)

Spec == Init /\ [][Next]_vars

\* The Loader used for transforming metas while modules are registered and
\* fetched.
TransformNext ==
  \/ \E moduleMeta \in TransformInputs : \E run \in TransformRuns : Transform(moduleMeta, run)
  \/ \E name \in HostNames : \E deps \in {<<>>, graph[name]} : Register(name, deps)
  \/ \E name \in HostNames : Fetch(name)
  \/ \E id \in 1..MaxTasks : \E form \in FetchForms \cup {"fail"} : FetchSettle(id, form)
  \/ \E id \in 1..MaxTasks : \E ok \in BOOLEAN : TransformSettle(id, ok)
  \/ \E id \in 1..MaxTasks : \E ok \in BOOLEAN : DependencySettle(id, ok)
  \/ \E id \in 1..MaxTasks : \E reg \in BOOLEAN : DepsSettled(id, reg)

TransformSpec == Init /\ [][TransformNext]_vars

\* ------------------------------------------------------------------ loading
\* The fetch collaborator and the transform and dependency handlers settle
\* successfully, and every queued promise reaction runs; no module
\* registers itself when its source is compiled.
LoadProgress ==
  \/ \E id \in 1..MaxTasks : \E form \in {"source", "code"} : FetchSettle(id, form)
  \/ \E id \in 1..MaxTasks : TransformSettle(id, TRUE)
  \/ \E id \in 1..MaxTasks : DependencySettle(id, TRUE)
  \/ \E id \in 1..MaxTasks : DepsSettled(id, FALSE)
  \/ \E i \in 1..MaxCalls : LoadContinue(i, FALSE)

\* The host only loads modules, and every collaborator succeeds in the end.
LoadNext ==
  \/ \E name \in HostNames : Load(name, FALSE)
  \/ LoadProgress

LoadSpec == Init /\ [][LoadNext]_vars /\ WF_vars(LoadProgress)

\* ------------------------------------------------------------------ linking
\* What the host passes to linkModule while modules are registered and
\* fetched: also a Module that carries the name and the deps "n" registers.
LinkModules == LinkInputs \cup {ModuleNew(MetaOf("n", <<"a">>, "factory"))}

LinkNext ==
  \/ \E mod \in LinkModules : \E reg \in BOOLEAN : LinkModule(mod, reg)
  \/ \E name \in HostNames : \E deps \in {<<>>, graph[name]} : Register(name, deps)
  \/ \E name \in HostNames : Fetch(name)
  \/ \E id \in 1..MaxTasks : \E form \in FetchForms \cup {"fail"} : FetchSettle(id, form)
  \/ \E id \in 1..MaxTasks : \E ok \in BOOLEAN : TransformSettle(id, ok)
  \/ \E id \in 1..MaxTasks : \E ok \in BOOLEAN : DependencySettle(id, ok)
  \/ \E id \in 1..MaxTasks : \E reg \in BOOLEAN : DepsSettled(id, reg)

LinkSpec == Init /\ [][LinkNext]_vars

\* ------------------------------------------------------------------ cycles
\* Sources whose declared dependencies form a cycle: "a" needs "n", "n" needs "a".
CyclicGraphs ==
  { [k \in Names |-> IF k = "n" THEN <<"a">> ELSE <<"n">>] }

CycleInit == InitWith(CyclicGraphs)

\* The Loader loading, fetching and registering the modules of a cycle.
CycleNext ==
  \/ \E name \in HostNames : \E reg \in BOOLEAN : Load(name, reg)
  \/ \E name \in HostNames : Fetch(name)
  \/ \E name \in HostNames : Register(name, graph[name])
  \/ \E id \in 1..MaxTasks : \E form \in FetchForms \cup {"fail"} : FetchSettle(id, form)
  \/ \E id \in 1..MaxTasks : \E ok \in BOOLEAN : TransformSettle(id, ok)
  \/ \E id \in 1..MaxTasks : \E ok \in BOOLEAN : DependencySettle(id, ok)
  \/ \E id \in 1..MaxTasks : \E reg \in BOOLEAN : DepsSettled(id, reg)
  \/ \E i \in 1..MaxCalls : \E reg \in BOOLEAN : LoadContinue(i, reg)

CycleSpec == CycleInit /\ [][CycleNext]_vars

\* ------------------------------------------------------------------ plugin registry
\* The kinds, handler lists, patterns and metas the host passes.
RegKinds == ServiceKinds

HandlerLists ==
  {Fn("f1"), Fn("f2"),
   Arr(<<HandlerEntry("f1", Str("o1")), HandlerEntry("f2", Str("o2"))>>),
   Arr(<<Fn("f2"), Null>>)}

Patterns == {Glob("js"), Glob("css")}

Descriptor(path, name, list) ==
  [kind |-> "meta", ref |-> 1, path |-> path, name |-> name, plugins |-> list]

Descriptors ==
  {Descriptor(Path("test", "js"), Undefined, Undefined),
   Descriptor(Path("x", "css"), Undefined, Undefined),
   Descriptor(Undefined, Path("x", "css"), Undefined),
   Descriptor(Path("test", "js"), Undefined, Arr(<<"less">>)),
   Descriptor(Path("x", "css"), Undefined, Arr(<<"less">>))}

CanCallPlugin == pipelineRun.state \notin {"running", "fetching"} /\ nPluginCalls < MaxPluginCalls

CommitRegistry(p) == plugins' = p.plugins /\ services' = p.services

\* bitloader.plugin(name).addHandlers(kind, handlers)
AddHandlers(name, kind, handlers) ==
  /\ CanCallPlugin
  /\ LET p0 == getPlugin(Registry, name)
         r  == addHandlers(p0, name, kind, handlers)
     IN /\ CommitRegistry(r.s)
        /\ pluginOp' = [op |-> "addHandlers", ok |-> r.ok, value |-> r.value,
                        name |-> name, stage |-> kind, handlers |-> handlers,
                        was |-> p0.plugins[name].handlers]
  /\ nPluginCalls' = nPluginCalls + 1
  /\ UNCHANGED <<pipelineRun, log, loaderVars, objectVars>>

\* bitloader.plugin(name, {match: {path: patterns}})
AddMatchingRules(name, patterns) ==
  /\ CanCallPlugin
  /\ LET r == addMatchingRules(Registry, name, patterns)
     IN /\ CommitRegistry(r.s)
        /\ pluginOp' = [op |-> "addMatchingRules", ok |-> r.ok, value |-> r.value,
                        name |-> name, patterns |-> patterns]
  /\ nPluginCalls' = nPluginCalls + 1
  /\ UNCHANGED <<pipelineRun, log, loaderVars, objectVars>>

\* runPipeline(moduleMeta): the stages start.
RunPipeline(moduleMeta) ==
  /\ CanCallPlugin
  /\ LET todo == runPipeline(Registry, moduleMeta, 1)
     IN pipelineRun' = [state |-> IF todo = <<>> THEN "done" ELSE "running",
                meta |-> moduleMeta, todo |-> todo, busy |-> NoItem]
  /\ log' = <<>>
  /\ pluginOp' = [op |-> "runPipeline", ok |-> TRUE, value |-> Undefined, meta |-> moduleMeta]
  /\ nPluginCalls' = nPluginCalls + 1
  /\ UNCHANGED <<plugins, services, loaderVars, objectVars>>

\* The next handler is called with (moduleMeta, options).
HandlerCall ==
  /\ pipelineRun.state = "running"
  /\ pipelineRun.busy = NoItem
  /\ pipelineRun.todo # <<>>
  /\ pipelineRun' = [pipelineRun EXCEPT !.busy = Head(pipelineRun.todo), !.todo = Tail(pipelineRun.todo)]
  /\ log' = Append(log, [ev |-> "call", inv |-> Head(pipelineRun.todo), meta |-> pipelineRun.meta.ref])
  /\ UNCHANGED <<plugins, services, nPluginCalls, pluginOp, loaderVars, objectVars>>

\* The handler that was called settles.
HandlerSettle ==
  /\ pipelineRun.state = "running"
  /\ pipelineRun.busy # NoItem
  /\ pipelineRun' = [pipelineRun EXCEPT !.busy = NoItem,
                        !.state = IF pipelineRun.todo = <<>> THEN "done" ELSE "running"]
  /\ log' = Append(log, [ev |-> "settle", inv |-> pipelineRun.busy, meta |-> pipelineRun.meta.ref])
  /\ UNCHANGED <<plugins, services, nPluginCalls, pluginOp, loaderVars, objectVars>>

PluginInit == Init /\ host = "browser"

PluginNext ==
  \/ \E name \in PluginNames : \E kind \in RegKinds : \E handlers \in HandlerLists :
       AddHandlers(name, kind, handlers)
  \/ \E name \in PluginNames : \E pattern \in Patterns : AddMatchingRules(name, {pattern})
  \/ \E moduleMeta \in Descriptors : RunPipeline(moduleMeta)
  \/ HandlerCall
  \/ HandlerSettle

PluginSpec == PluginInit /\ [][PluginNext]_vars

\* ------------------------------------------------------------------ fetch stage
\* MetaFetch: the fetch stage of a meta.  The run in progress is kept in
\* pipelineRun, the calls of the fetch plugin handlers and of the default
\* fetch collaborator (manager.fetch) in log.

\* moduleMeta.hasOwnProperty("source"): NoItem stands for no such property.
HasOwnSource(moduleMeta) == moduleMeta.source # NoItem

\* A meta as it enters the fetch stage.
FetchMeta(ref, name, source) ==
  [kind |-> "meta", ref |-> ref, path |-> Undefined, name |-> name,
   plugins |-> Undefined, source |-> source]

\* Meta.prototype.configure: the properties of options are copied onto the
\* meta object, which is returned.
configure(moduleMeta, options) == [moduleMeta EXCEPT !.source = options.source]

canProcessSourceOnly(moduleMeta, ignored) == ~HasOwnSource(moduleMeta)

\* ignored is what manager.rules.ignore.match(moduleMeta.name, "fetch") answers.
canProcess(moduleMeta, ignored) == ~(HasOwnSource(moduleMeta) \/ ignored)

FetchStage(state, moduleMeta, todo, ignored, result) ==
  [state |-> state, meta |-> moduleMeta, todo |-> todo, busy |-> NoItem,
   ignored |-> ignored, result |-> result]

\* MetaFetch.fetch: the default fetch collaborator is invoked.
MetaFetchFetch(moduleMeta, ignored, l) ==
  IF ~canProcess(moduleMeta, ignored)
  THEN [run |-> FetchStage("done", moduleMeta, <<>>, ignored, Settled("resolved", moduleMeta)),
        log |-> l]
  ELSE [run |-> FetchStage("fetching", moduleMeta, <<>>, ignored, NoItem),
        log |-> Append(l, [ev |-> "fetch", inv |-> NoItem, meta |-> moduleMeta.ref])]

\* fetchFinished: the fetch plugin handlers have all settled.
fetchFinished(moduleMeta, ignored, l) ==
  IF HasOwnSource(moduleMeta)
  THEN [run |-> FetchStage("done", moduleMeta, <<>>, ignored, Settled("resolved", moduleMeta)),
        log |-> l]
  ELSE MetaFetchFetch(moduleMeta, ignored, l)

\* MetaFetch.pipeline, up to the first call of a handler or collaborator.
MetaFetchPipeline(p, moduleMeta, ignored) ==
  IF ~canProcess(moduleMeta, ignored)
  THEN [run |-> FetchStage("done", moduleMeta, <<>>, ignored, Settled("resolved", moduleMeta)),
        log |-> <<>>]
  ELSE LET todo == serviceHandlers(p, "fetch", moduleMeta, 1)
       IN IF todo = <<>> THEN fetchFinished(moduleMeta, ignored, <<>>)
          ELSE [run |-> FetchStage("running", moduleMeta, todo, ignored, NoItem), log |-> <<>>]

\* The metas the host puts through the fetch stage: without a source, with a
\* source, with a source property that is undefined.
FetchMetas ==
  {FetchMeta(1, Path("test", "js"), NoItem),
   FetchMeta(1, Path("x", "css"), NoItem),
   FetchMeta(1, Path("test", "js"), Str("own")),
   FetchMeta(1, Path("test", "js"), Undefined)}

\* What a fetch plugin handler does to the meta.
HandlerEffects == {"none", "source", "fail"}

FetchHandlerLists ==
  {Fn("f1"), Arr(<<HandlerEntry("f1", Str("o1")), HandlerEntry("f2", Str("o2"))>>)}

\* MetaFetch.pipeline(manager, moduleMeta)
FetchPipeline(moduleMeta, ignored) ==
  /\ CanCallPlugin
  /\ LET r == MetaFetchPipeline(Registry, moduleMeta, ignored)
     IN pipelineRun' = r.run /\ log' = r.log
  /\ pluginOp' = [op |-> "fetchPipeline", ok |-> TRUE, value |-> Undefined,
                  meta |-> moduleMeta, ignored |-> ignored]
  /\ nPluginCalls' = nPluginCalls + 1
  /\ UNCHANGED <<plugins, services, loaderVars, objectVars>>

\* The fetch plugin handler that was called settles.
FetchHandlerSettle(effect) ==
  /\ pipelineRun.state = "running"
  /\ pipelineRun.busy # NoItem
  /\ LET l == Append(log, [ev |-> "settle", inv |-> pipelineRun.busy,
                           meta |-> pipelineRun.meta.ref, effect |-> effect])
         moduleMeta == IF effect = "source"
                       THEN [pipelineRun.meta EXCEPT !.source = Str("plugin")]
                       ELSE pipelineRun.meta
     IN IF effect = "fail"
        THEN /\ pipelineRun' = FetchStage("failed", moduleMeta, <<>>, pipelineRun.ignored,
                                 forwardError(ErrorOf("fetch", pipelineRun.busy.plugin)))
             /\ log' = l
        ELSE IF pipelineRun.todo # <<>>
        THEN /\ pipelineRun' = [pipelineRun EXCEPT !.busy = NoItem, !.meta = moduleMeta]
             /\ log' = l
        ELSE LET r == fetchFinished(moduleMeta, pipelineRun.ignored, l)
             IN pipelineRun' = r.run /\ log' = r.log
  /\ UNCHANGED <<plugins, services, nPluginCalls, pluginOp, loaderVars, objectVars>>

\* manager.fetch(moduleMeta) settles: its result is configured onto the meta,
\* its failure is reported and handed on.
ManagerFetchSettle(ok) ==
  /\ pipelineRun.state = "fetching"
  /\ pipelineRun' =
       IF ok
       THEN [pipelineRun EXCEPT
               !.state = "done",
               !.meta = configure(@, [source |-> Str("fetched")]),
               !.result = Settled("resolved",
                            configure(pipelineRun.meta, [source |-> Str("fetched")]))]
       ELSE [pipelineRun EXCEPT
               !.state = "failed",
               !.result = Settled("rejected", ErrorOf("fetch", "manager"))]
  /\ log' = Append(log, [ev |-> "fetched", inv |-> NoItem, meta |-> pipelineRun.meta.ref])
  /\ UNCHANGED <<plugins, services, nPluginCalls, pluginOp, loaderVars, objectVars>>

FetchStageNext ==
  \/ \E name \in PluginNames : \E handlers \in FetchHandlerLists :
       AddHandlers(name, "fetch", handlers)
  \/ \E name \in PluginNames : \E pattern \in Patterns : AddMatchingRules(name, {pattern})
  \/ \E moduleMeta \in FetchMetas : \E ignored \in BOOLEAN : FetchPipeline(moduleMeta, ignored)
  \/ HandlerCall
  \/ \E effect \in HandlerEffects : FetchHandlerSettle(effect)
  \/ \E ok \in BOOLEAN : ManagerFetchSettle(ok)

FetchStageSpec == PluginInit /\ [][FetchStageNext]_vars

\* ------------------------------------------------------------------ Meta and Module
\* Meta.validate, Meta.isCompiled, Meta.canCompile and the Module constructor
\* on JavaScript values.  A property an object does not have is NoItem.
MaxObjectCalls == 3   \* calls and array updates made by the host on Meta and Module

Num(n) == [kind |-> "number", n |-> n]

\* An object with the properties the Meta functions read.
ObjectOf(code, factory, source) ==
  [kind |-> "object", code |-> code, factory |-> factory, source |-> source]

\* !value
Falsy(value) ==
  \/ value = Undefined
  \/ value = Null
  \/ value.kind = "string" /\ value.text = ""
  \/ value.kind = "number" /\ value.n = 0

\* typeof(value), for a value or a missing property
TypeOf(value) ==
  IF value.kind \in {"none", "undefined"} THEN "undefined"
  ELSE IF value.kind = "null" THEN "object"
  ELSE value.kind

\* moduleMeta.hasOwnProperty("code"); a string has no such property.
HasOwnCode(moduleMeta) == moduleMeta.kind = "object" /\ moduleMeta.code # NoItem

\* moduleMeta.factory, moduleMeta.source
Factory(moduleMeta) == IF moduleMeta.kind = "object" THEN moduleMeta.factory ELSE NoItem
Source(moduleMeta)  == IF moduleMeta.kind = "object" THEN moduleMeta.source ELSE NoItem

isCompiled(moduleMeta) ==
  HasOwnCode(moduleMeta) \/ TypeOf(Factory(moduleMeta)) = "function"

canCompileAnyString(moduleMeta) == TypeOf(Source(moduleMeta)) = "string"

canCompile(moduleMeta) ==
  ~isCompiled(moduleMeta) /\ TypeOf(Source(moduleMeta)) = "string"

validate(moduleMeta) ==
  IF Falsy(moduleMeta) THEN Throw(Undefined, ErrorOf("nooptions", NoName))
  ELSE IF ~isCompiled(moduleMeta) /\ ~canCompile(moduleMeta)
  THEN Throw(Undefined, ErrorOf("invalidmeta", NoName))
  ELSE Return(Undefined, Undefined)

\* The values of the properties code, factory and source the host builds
\* metas from, and what it passes instead of a meta.
CodeValues    == {NoItem, Undefined, Str("c")}
FactoryValues == {NoItem, Fn("f1"), Str("f")}
SourceValues  == {NoItem, Str(""), Str("x"), Num(1)}

MetaObjects ==
  {ObjectOf(code, factory, source) :
     code \in CodeValues, factory \in FactoryValues, source \in SourceValues}

NotObjects == {Undefined, Null, Str(""), Str("x"), Num(0)}

\* Meta.validate(moduleMeta)
Validate(moduleMeta) ==
  /\ nObjectCalls < MaxObjectCalls
  /\ LET r == validate(moduleMeta)
     IN objOp' = [op |-> "validate", ok |-> r.ok, value |-> r.value, arg |-> moduleMeta]
  /\ nObjectCalls' = nObjectCalls + 1
  /\ UNCHANGED <<heap, loaderVars, pluginVars>>

\* Meta.isCompiled(moduleMeta) and Meta.canCompile(moduleMeta)
Classify(moduleMeta) ==
  /\ nObjectCalls < MaxObjectCalls
  /\ objOp' = [op |-> "classify", ok |-> TRUE, value |-> Undefined, arg |-> moduleMeta,
               isCompiled |-> isCompiled(moduleMeta), canCompile |-> canCompile(moduleMeta)]
  /\ nObjectCalls' = nObjectCalls + 1
  /\ UNCHANGED <<heap, loaderVars, pluginVars>>

MetaNext ==
  \/ \E moduleMeta \in MetaObjects \cup NotObjects : Validate(moduleMeta)
  \/ \E moduleMeta \in MetaObjects : Classify(moduleMeta)

MetaSpec == PluginInit /\ [][MetaNext]_vars

\* ------------------------------------------------------------------ Module
MaxDeps == 2   \* the length of an array the host updates

\* A reference to an array of the heap.
ArrayRef(ref) == [kind |-> "arrayref", ref |-> ref]

Type == [UNKNOWN |-> Str("UNKNOWN"), AMD |-> Str("AMD"), CJS |-> Str("CJS"), IIFE |-> Str("IIFE")]

\* The options of a Module; a property the object does not have is NoItem.
OptionsOf(name, deps, type) ==
  [kind |-> "object", name |-> name, deps |-> deps, type |-> type]

\* value || other
OrElse(value, other) == IF value = NoItem \/ Falsy(value) THEN other ELSE value

\* The Module shares the deps array of its options.
ModuleSharedDeps(h, options) ==
  IF Falsy(options) THEN Throw(h, ErrorOf("nomoduleoptions", NoName))
  ELSE IF options.deps # NoItem /\ ~Falsy(options.deps)
  THEN Return(h, [kind |-> "module", type |-> OrElse(options.type, Type.UNKNOWN),
                  name |-> options.name, deps |-> options.deps, settings |-> options])
  ELSE Return(Append(h, <<>>),
              [kind |-> "module", type |-> OrElse(options.type, Type.UNKNOWN),
               name |-> options.name, deps |-> ArrayRef(Len(h) + 1), settings |-> options])

\* new Module(options) on the heap h: deps is options.deps.slice(0), a new
\* array with the same elements, or a new empty array.
Module(h, options) ==
  IF Falsy(options) THEN Throw(h, ErrorOf("nomoduleoptions", NoName))
  ELSE LET deps == IF options.deps # NoItem /\ ~Falsy(options.deps)
                   THEN h[options.deps.ref] ELSE <<>>
       IN Return(Append(h, deps),
                 [kind |-> "module", type |-> OrElse(options.type, Type.UNKNOWN),
                  name |-> options.name, deps |-> ArrayRef(Len(h) + 1),
                  settings |-> options])

\* The options the host passes: with the deps array ["a"], with the empty
\* array, with deps undefined or missing; with a type, an empty type, none.
ModuleOptions ==
  {OptionsOf("n", deps, type) :
     deps \in {NoItem, Undefined, ArrayRef(1), ArrayRef(2)},
     type \in {NoItem, Type.AMD, Str("")}}

\* new Module(options)
NewModule(options) ==
  /\ nObjectCalls < MaxObjectCalls
  /\ LET r == Module(heap, options)
     IN /\ heap' = r.s
        /\ objOp' = [op |-> "module", ok |-> r.ok, value |-> r.value, arg |-> options,
                     at |-> nObjectCalls + 1]
  /\ nObjectCalls' = nObjectCalls + 1
  /\ UNCHANGED <<loaderVars, pluginVars>>

\* array.push(item) on an array of the heap
Push(ref, item) ==
  /\ nObjectCalls < MaxObjectCalls
  /\ ref \in 1..Len(heap)
  /\ Len(heap[ref]) < MaxDeps
  /\ heap' = [heap EXCEPT ![ref] = Append(@, item)]
  /\ nObjectCalls' = nObjectCalls + 1
  /\ UNCHANGED <<objOp, loaderVars, pluginVars>>

ModuleNext ==
  \/ \E options \in ModuleOptions \cup {Undefined, Null} : NewModule(options)
  \/ \E ref \in 1..(Len(HostArrays) + MaxObjectCalls) : \E item \in Names : Push(ref, item)

ModuleSpec == PluginInit /\ [][ModuleNext]_vars

\* ------------------------------------------------------------------ properties
Stages == {"fetch", "transform", "dependency"}

IsStageError(e) == e.kind = "error" /\ e.what \in Stages

\* The host call made by the current step, if any.
Calls(op, name) ==
  /\ nCalls' = nCalls + 1
  /\ lastOp'.op = op
  /\ lastOp'.name = name

\* C1: a fetch(n) made while n is loading and not in the manager's cache does
\* not invoke the fetch collaborator and returns the deferred recorded under
\* loading, so that at most one fetch is in flight per name.
C1_FetchDedup ==
  [][\A name \in Names :
       (Calls("fetch", name) /\ isLoading(Cur, name) /\ ~managerHasModule(Cur, name))
       => /\ fetchCalls' = fetchCalls
          /\ tasks' = tasks
          /\ lastOp'.ok
          /\ lastOp'.value = getLoading(Cur, name)]_vars

C1_Witness ==
  /\ lastOp.op = "fetch"
  /\ nCalls = 2
  /\ Len(tasks) = 1
  /\ tasks[1].state = "pending"
  /\ lastOp.value = TaskRef(1)
  /\ fetchCalls[lastOp.name] = 1

\* C2: a name is in state loaded only when each of its declared dependencies
\* has completed its fetch, transform and dependency stages (or is a finished
\* Module of the manager).
C2_DepsCompleteBeforeLoaded ==
  \A name \in Names :
    LET item == modules["loaded"][name]
    IN item.kind = "meta" =>
         \A i \in 1..Len(item.deps) :
           item.deps[i] \in completed \/ cache[item.deps[i]] # NoItem

C4_LoadCached ==
  [][\A name \in Names :
       (Calls("load", name) /\ managerHasModule(Cur, name))
       => /\ modules' = modules
          /\ cache' = cache
          /\ tasks' = tasks
          /\ fetchCalls' = fetchCalls
          /\ Len(loads') = Len(loads) + 1
          /\ loads'[Len(loads')].state = "resolved"
          /\ loads'[Len(loads')].value = cache[name]]_vars

C4_Witness ==
  /\ lastOp.op = "load"
  /\ Len(loads) >= 2
  /\ loads[Len(loads)].pre = "cached"
  /\ loads[Len(loads)].state = "resolved"
  /\ loads[Len(loads)].value = cache[lastOp.name]

\* C5: a load(n) made while n is loading or pending does not invoke the fetch
\* collaborator and, when nothing fails and the host only calls load,
\* resolves to the Module of n.
C5_LoadWhileInFlight ==
  \A i \in 1..Len(loads) :
    loads[i].pre \in {"loading", "pending"} =>
      /\ ~loads[i].refetched
      /\ (faults = 0 /\ Len(loads) = nCalls /\ loads[i].state # "waiting")
           => /\ loads[i].state = "resolved"
              /\ loads[i].value.kind = "module"
              /\ loads[i].value.name = loads[i].name

\* C6: when the fetch collaborator, a transform handler or a dependency
\* handler fails for n, the deferred of fetch(n), once settled, is rejected
\* with that failure, and so is the deferred of every load(n) waiting on it.
C6_FailureRejects ==
  /\ \A id \in 1..Len(tasks) :
       (tasks[id].kind = "fetch" /\ IsStageError(tasks[id].fail) /\ tasks[id].state # "pending")
       => (tasks[id].state = "rejected" /\ tasks[id].value = tasks[id].fail)
  /\ \A i \in 1..Len(loads) :
       (/\ loads[i].phase = "fetch"
        /\ loads[i].await.kind = "promise"
        /\ IsStageError(tasks[loads[i].await.id].fail)
        /\ loads[i].state # "waiting")
       => (loads[i].state = "rejected" /\ loads[i].value = tasks[loads[i].await.id].fail)

\* C7: in the state that follows the failure of the fetch, transform or
\* dependency stage of n, n is not in state loaded and the manager's cache
\* holds no Module for n.
C7_FailureNotLoaded ==
  [][\A id \in 1..Len(tasks) :
       (tasks[id].kind = "fetch" /\ tasks[id].fail = NoItem /\ IsStageError(tasks'[id].fail))
       => /\ modules'["loaded"][tasks[id].name] = NoItem
          /\ cache'[tasks[id].name] = NoItem]_vars

\* C8: a load(n) made after a load(n) was rejected because a stage of n
\* failed invokes the fetch collaborator for n.
C8_RetryFetchesAgain ==
  [][\A name \in Names :
       (/\ Calls("load", name)
        /\ \E i \in 1..Len(loads) :
             /\ loads[i].name = name
             /\ loads[i].state = "rejected"
             /\ loads[i].phase = "fetch"
             /\ loads[i].await.kind = "promise"
             /\ IsStageError(tasks[loads[i].await.id].fail))
       => fetchCalls'[name] = fetchCalls[name] + 1]_vars

\* The deferred operations a task waits on, directly or through others.
RECURSIVE AwaitClosure(_, _)
AwaitClosure(ids, k) ==
  IF k = 0 THEN ids
  ELSE AwaitClosure(ids \cup {tasks[id].await[j].id :
                                <<id, j>> \in {p \in ids \X (1..Len(NameOrder)) :
                                                 /\ p[2] <= Len(tasks[p[1]].await)
                                                 /\ tasks[p[1]].await[p[2]].kind = "promise"}},
                    k - 1)

\* C9: when the load of a dependency of n failed, a load(n) waiting on it is
\* not resolved, and no Module for n is produced by compile nor cached.
C9_DependencyFailureFailsDependent ==
  \A i \in 1..Len(loads) :
    (/\ loads[i].phase = "fetch"
     /\ loads[i].await.kind = "promise"
     /\ \E id \in AwaitClosure({loads[i].await.id}, Len(tasks)) \ {loads[i].await.id} :
          IsStageError(tasks[id].fail))
    => /\ loads[i].state # "resolved"
       /\ loads[i].name \notin produced
       /\ cache[loads[i].name] = NoItem

\* C10: register(n, deps, factory) for a name known to neither the manager nor
\* the Loader stores the meta {n, deps, factory} under loaded when deps is
\* empty and under pending otherwise, touches no other record and fetches
\* nothing.
C10_Register ==
  [][\A name \in Names :
       (Calls("register", name) /\ ~managerHasModule(Cur, name) /\ ~hasModule(Cur, name))
       => LET st == IF lastOp'.deps = <<>> THEN "loaded" ELSE "pending"
          IN /\ lastOp'.ok
             /\ modules'[st][name] = MetaOf(name, lastOp'.deps, "factory")
             /\ \A s2 \in StateTypes \ {st} : modules'[s2][name] = NoItem
             /\ \A k \in Names \ {name} : \A s2 \in StateTypes : modules'[s2][k] = modules[s2][k]
             /\ fetchCalls' = fetchCalls
             /\ tasks' = tasks
             /\ cache' = cache]_vars

C10_Witness ==
  /\ lastOp.op = "register"
  /\ lastOp.ok
  /\ lastOp.deps # <<>>
  /\ isPending(Cur, lastOp.name)
  /\ modules["pending"][lastOp.name].deps = lastOp.deps

\* The errors the Loader throws as TypeError.
IsTypeError(e) ==
  e.kind = "error" /\ e.what \in {"registered", "cached", "notloaded", "notpending", "notmodule", "noname",
                                  "nometa", "nosource", "handler", "noservice",
                                  "nooptions", "invalidmeta", "nomoduleoptions"}

\* C11: register(n, ...) for a name that is in the manager's cache or holds a
\* record in any state of the store throws a TypeError and leaves the store
\* (and the cache) unchanged.
C11_RegisterKnownFails ==
  [][\A name \in Names :
       (Calls("register", name) /\ (managerHasModule(Cur, name) \/ hasModule(Cur, name)))
       => /\ ~lastOp'.ok
          /\ IsTypeError(lastOp'.value)
          /\ modules' = modules
          /\ cache' = cache]_vars

C11_Witness ==
  /\ lastOp.op = "register"
  /\ ~lastOp.ok
  /\ IsTypeError(lastOp.value)
  /\ isLoading(Cur, lastOp.name)

\* The store after the code of a compiled source registered the module itself.
SelfRegistered(name) ==
  register(removeModule(Cur, name), name, Registrations[name]).s.modules

\* C12 (as stated): a compileModuleMeta(n) that finds n loaded takes the loaded
\* meta out of the store, and after it n holds no record in the store.
C12_CompileLeavesNoRecord ==
  [][\A name \in Names :
       (Calls("compileModuleMeta", name) /\ isLoaded(Cur, name))
       => /\ modules'["loaded"][name] # modules["loaded"][name]
          /\ \A st \in StateTypes : modules'[st][name] = NoItem]_vars

\* C12 (amended): a compileModuleMeta(n) that finds n loaded takes the loaded
\* meta out of the store before the compile collaborator runs, so that the
\* same meta is never handed to compile twice; after it n holds no record,
\* unless the code of n registered n while it was compiled, and then n holds
\* exactly the registered meta.  When n is not loaded compile is not invoked.
C12_CompileConsumes ==
  [][\A name \in Names :
       Calls("compileModuleMeta", name)
       => IF isLoaded(Cur, name)
          THEN /\ modules'["loaded"][name] # modules["loaded"][name]
               /\ \/ \A st \in StateTypes : modules'[st][name] = NoItem
                  \/ /\ modules["loaded"][name].kind = "meta"
                     /\ modules["loaded"][name].form = "source"
                     /\ lastOp'.ok
                     /\ modules' = SelfRegistered(name)
               /\ \A k \in Names \ {name} : \A st \in StateTypes : modules'[st][k] = modules[st][k]
          ELSE produced' = produced /\ ~lastOp'.ok]_vars

C12_Witness ==
  /\ lastOp.op = "compileModuleMeta"
  /\ lastOp.ok
  /\ lastOp.value.kind = "module"
  /\ lastOp.name \in produced
  /\ ~hasModule(Cur, lastOp.name)

\* C13: compileModuleMeta(n) for a name that is not in state loaded throws a
\* TypeError without invoking compile and leaves the store and the cache
\* unchanged; the error is the "already loaded, get it from the manager" one
\* exactly when the manager has n cached and the "not loaded yet" one
\* otherwise.
C13_CompileNotLoaded ==
  [][\A name \in Names :
       (Calls("compileModuleMeta", name) /\ ~isLoaded(Cur, name))
       => /\ ~lastOp'.ok
          /\ IsTypeError(lastOp'.value)
          /\ lastOp'.value.what = (IF managerIsModuleCached(Cur, name) THEN "cached" ELSE "notloaded")
          /\ modules' = modules
          /\ cache' = cache
          /\ produced' = produced]_vars

C13_Witness ==
  /\ lastOp.op = "compileModuleMeta"
  /\ ~lastOp.ok
  /\ lastOp.value.what = "cached"
  /\ managerIsModuleCached(Cur, lastOp.name)

\* C14: every record of the store is a ModuleMeta (states pending and
\* loaded) or an in-flight deferred (state loading).
C14_StoreHoldsMetasAndDeferreds ==
  \A name \in Names :
    /\ modules["loaded"][name] # NoItem => modules["loaded"][name].kind = "meta"
    /\ modules["pending"][name] # NoItem => modules["pending"][name].kind = "meta"
    /\ modules["loading"][name] # NoItem
         => /\ modules["loading"][name].kind = "promise"
            /\ tasks[modules["loading"][name].id].state = "pending"

\* C15: in the state where the deferred of fetch(n) settles, n is not in
\* state loading, and when no stage failed n is in state loaded.
C15_SettledFetchLeavesLoading ==
  [][\A id \in 1..Len(tasks) :
       (tasks[id].kind = "fetch" /\ tasks[id].state = "pending" /\ tasks'[id].state # "pending")
       => /\ modules'["loading"][tasks[id].name] = NoItem
          /\ tasks'[id].fail = NoItem => modules'["loaded"][tasks[id].name] # NoItem]_vars

\* C16: buildModule(n) returns or throws what linkModule(compileModuleMeta(n))
\* does and leaves the store and the cache as that composition does; it
\* starts no deferred operation and invokes no fetch; it succeeds only when n
\* is loaded, and when n is not loaded it throws compileModuleMeta's error
\* and the linker caches nothing.
C16_BuildIsLinkOfCompile ==
  [][\A name \in Names :
       Calls("buildModule", name)
       => /\ \E reg \in BOOLEAN :
               LET c == compileModuleMeta(CurReg(reg), name)
                   l == IF c.ok THEN linkModule(c.s, c.value) ELSE c
               IN /\ lastOp'.ok = l.ok
                  /\ lastOp'.value = l.value
                  /\ modules' = l.s.modules
                  /\ cache' = l.s.cache
                  /\ produced' = l.s.produced
          /\ tasks' = tasks
          /\ fetchCalls' = fetchCalls
          /\ completed' = completed
          /\ lastOp'.ok => isLoaded(Cur, name)
          /\ ~isLoaded(Cur, name)
               => /\ ~lastOp'.ok
                  /\ lastOp'.value.what \in {"cached", "notloaded"}
                  /\ cache' = cache
                  /\ modules' = modules]_vars

C16_Witness ==
  /\ lastOp.op = "buildModule"
  /\ lastOp.ok
  /\ lastOp.value.kind = "module"
  /\ cache[lastOp.name] = lastOp.value
  /\ lastOp.name \in produced

\* The deferred operation started by the current step for a pending meta.
StartsPending(name, moduleMeta, cont) ==
  /\ Len(tasks') = Len(tasks) + 1
  /\ tasks'[Len(tasks')] = NewTask("pending", name, "dependency", moduleMeta, cont)
  /\ lastOp'.ok
  /\ lastOp'.value = TaskRef(Len(tasks'))

\* Every dependency declared on the meta of task id has been fetched and the
\* deferred of each of these fetches is fulfilled.
DepsResolved(id) ==
  /\ tasks[id].pc = "waitdeps"
  /\ Len(tasks[id].await) = Len(tasks[id].meta.deps)
  /\ \A j \in 1..Len(tasks[id].await) : Outcome(Cur, tasks[id].await[j]).state = "resolved"

C19_LinkNonModule ==
  [][(lastOp'.op = "linkModule" /\ nCalls' = nCalls + 1 /\ lastOp'.arg.kind # "module")
     => /\ ~lastOp'.ok
        /\ IsTypeError(lastOp'.value)
        /\ cache' = cache
        /\ modules' = modules]_vars

\* C20: load called without a module name throws a TypeError at the call; the
\* error is not delivered through a rejected deferred.
C20_LoadWithoutNameThrows ==
  [][Calls("load", NoName)
     => /\ ~lastOp'.ok
        /\ IsTypeError(lastOp'.value)]_vars

\* The step is a transform call.
CallsTransform == nCalls' = nCalls + 1 /\ lastOp'.op = "transform"

HasStringSource(moduleMeta) ==
  moduleMeta # Undefined /\ moduleMeta.source.kind = "string"

\* C21: transform(meta) on a meta with a string source and no matching plugin
\* resolves to the same meta object (same identity), its source unchanged, its
\* deps an empty sequence when it had none and as they were otherwise.
C21_TransformIdentity ==
  [][(CallsTransform /\ HasStringSource(lastOp'.arg) /\ lastOp'.run = "none")
     => /\ lastOp'.ok
        /\ lastOp'.value.state = "resolved"
        /\ lastOp'.value.value.ref = lastOp'.arg.ref
        /\ lastOp'.value.value.name = lastOp'.arg.name
        /\ lastOp'.value.value.source = lastOp'.arg.source
        /\ lastOp'.value.value.deps =
             (IF lastOp'.arg.deps = Undefined THEN Arr(<<>>) ELSE lastOp'.arg.deps)]_vars

C21_Witness ==
  /\ lastOp.op = "transform"
  /\ lastOp.run = "none"
  /\ lastOp.ok
  /\ lastOp.arg.deps = Arr(<<"a">>)
  /\ lastOp.value.value.deps = Arr(<<"a">>)
  /\ lastOp.value.value.ref = lastOp.arg.ref

\* C22: a transform call runs the handlers of the transform stage only, does
\* not invoke the fetch collaborator, starts no deferred operation and leaves
\* the store and the cache as they were; without a meta, or with a source that
\* is not a string, it throws a TypeError and no handler has run.
C22_TransformOnly ==
  [][CallsTransform
     => /\ \A i \in 1..Len(lastOp'.ran) : lastOp'.ran[i] = "transform"
        /\ modules' = modules
        /\ cache' = cache
        /\ tasks' = tasks
        /\ fetchCalls' = fetchCalls
        /\ completed' = completed
        /\ produced' = produced
        /\ loads' = loads
        /\ (~HasStringSource(lastOp'.arg)
              => /\ ~lastOp'.ok
                 /\ IsTypeError(lastOp'.value)
                 /\ lastOp'.ran = <<>>)]_vars

C22_Witness ==
  /\ lastOp.op = "transform"
  /\ lastOp.ok
  /\ lastOp.ran = <<"transform">>
  /\ lastOp.arg.deps = Arr(<<"a">>)
  /\ isLoaded(Cur, "n")
  /\ ~hasModule(Cur, "a")
  /\ ~managerHasModule(Cur, "a")

\* The stages of a deferred operation that are still to run or running.
StagePcs == {"fetch", "transform", "dependency", "waitdeps"}

RunEnds ==
  /\ pipelineRun'.state = "done"
  /\ \/ pipelineRun.state = "running"
     \/ nPluginCalls' = nPluginCalls + 1 /\ pluginOp'.op = "runPipeline"

\* The handlers a plugin holds for a stage, as {handler, options} entries.
RegisteredHandlers(name, kind) ==
  IF plugins[name] = NoItem THEN <<>>
  ELSE IF plugins[name].handlers[kind] = Undefined THEN <<>>
  ELSE plugins[name].handlers[kind].items

\* The handlers of a plugin a run has called for a stage, in call order.
InvokedHandlers(l, name, kind) ==
  LET calls == SelectSeq(l, LAMBDA e : e.ev = "call" /\ e.inv.stage = kind /\ e.inv.plugin = name)
  IN [i \in 1..Len(calls) |-> [handler |-> calls[i].inv.handler, options |-> calls[i].inv.options]]

InList(name, list) == \E i \in 1..Len(list.items) : list.items[i] = name

\* The path of the meta, or its name when it has no path, satisfies one of
\* the patterns.
PathSatisfies(patterns, moduleMeta) ==
  LET d == IF moduleMeta.path # Undefined THEN moduleMeta.path ELSE moduleMeta.name
  IN \E pattern \in patterns : d.kind = "path" /\ d.ext = pattern.ext

\* C24: for a meta with an explicit plugins list, a run has called, for every
\* stage, the handlers of the listed plugins, each once, and no handler of a
\* plugin that is not listed, whatever the path and the rules of that plugin.
C24_ExplicitPlugins ==
  [][(RunEnds /\ pipelineRun'.meta.plugins # Undefined)
     => \A name \in PluginNames : \A kind \in ServiceKinds :
          InvokedHandlers(log', name, kind) =
            (IF InList(name, pipelineRun'.meta.plugins)
             THEN RegisteredHandlers(name, kind) ELSE <<>>)]_vars

C24_Witness ==
  /\ pipelineRun.state = "done"
  /\ pipelineRun.meta.plugins = Arr(<<"less">>)
  /\ plugins["text"] # NoItem
  /\ plugins["less"] # NoItem
  /\ plugins["text"].matches = {}
  /\ RegisteredHandlers("text", "transform") # <<>>
  /\ InvokedHandlers(log, "text", "transform") = <<>>
  /\ RegisteredHandlers("less", "transform") # <<>>
  /\ InvokedHandlers(log, "less", "transform") = RegisteredHandlers("less", "transform")

\* C25 (as stated): a meta matches a plugin exactly when the plugin is in its
\* plugins list, or its path satisfies a pattern of the plugin, or the plugin
\* has no matching rules; the handlers a run calls for a stage are those of
\* the matching plugins.
C25_MatchesAnyOfThree ==
  [][RunEnds
     => \A name \in PluginNames : \A kind \in ServiceKinds :
          plugins[name] # NoItem =>
            InvokedHandlers(log', name, kind) =
              (IF \/ (pipelineRun'.meta.plugins # Undefined /\ InList(name, pipelineRun'.meta.plugins))
                  \/ PathSatisfies(plugins[name].matches, pipelineRun'.meta)
                  \/ plugins[name].matches = {}
               THEN RegisteredHandlers(name, kind) ELSE <<>>)]_vars

\* C25 (amended): a meta with a plugins list matches exactly the plugins it
\* lists; a meta without one matches a plugin exactly when its path (its name
\* when it has no path) satisfies a pattern of the plugin or the plugin has no
\* matching rules.  The handlers a run calls for a stage are those of the
\* matching plugins that hold handlers for it.
C25_Matching ==
  [][RunEnds
     => \A name \in PluginNames : \A kind \in ServiceKinds :
          plugins[name] # NoItem =>
            InvokedHandlers(log', name, kind) =
              (IF (IF pipelineRun'.meta.plugins # Undefined
                   THEN InList(name, pipelineRun'.meta.plugins)
                   ELSE \/ PathSatisfies(plugins[name].matches, pipelineRun'.meta)
                        \/ plugins[name].matches = {})
               THEN RegisteredHandlers(name, kind) ELSE <<>>)]_vars

C25_Witness ==
  /\ pipelineRun.state = "done"
  /\ pipelineRun.meta.plugins = Undefined
  /\ plugins["less"] # NoItem
  /\ plugins["text"] # NoItem
  /\ plugins["less"].matches = {}
  /\ plugins["text"].matches # {}
  /\ ~PathSatisfies(plugins["text"].matches, pipelineRun.meta)
  /\ RegisteredHandlers("less", "dependency") # <<>>
  /\ RegisteredHandlers("less", "transform") = <<>>
  /\ InvokedHandlers(log, "less", "dependency") = RegisteredHandlers("less", "dependency")
  /\ \A i \in 1..Len(log) : log[i].inv.plugin = "less"

\* C26: for a meta without a plugins list and a plugin with path rules, a run
\* has called the handlers of every stage of the plugin once when the path
\* satisfies one of its patterns, and none of them when it satisfies none.
C26_PathRules ==
  [][(RunEnds /\ pipelineRun'.meta.plugins = Undefined /\ pipelineRun'.meta.path # Undefined)
     => \A name \in PluginNames : \A kind \in ServiceKinds :
          (plugins[name] # NoItem /\ plugins[name].matches # {}) =>
            InvokedHandlers(log', name, kind) =
              (IF \E pattern \in plugins[name].matches : pipelineRun'.meta.path.ext = pattern.ext
               THEN RegisteredHandlers(name, kind) ELSE <<>>)]_vars

C26_Witness ==
  /\ pipelineRun.state = "done"
  /\ pipelineRun.meta = Descriptor(Path("x", "css"), Undefined, Undefined)
  /\ plugins["less"] # NoItem
  /\ plugins["less"].matches = {Glob("css")}
  /\ Len(RegisteredHandlers("less", "transform")) = 2
  /\ InvokedHandlers(log, "less", "transform") = RegisteredHandlers("less", "transform")

\* The step is an addHandlers call.
CallsAddHandlers == nPluginCalls' = nPluginCalls + 1 /\ pluginOp'.op = "addHandlers"

\* C27: an addHandlers call whose list holds an invalid entry throws a
\* TypeError, leaves the handlers of the plugin as they were (none when the
\* plugin had none) and registers no delegate with any service.
C27_AddHandlersAllOrNothing ==
  [][(CallsAddHandlers
        /\ \E i \in 1..Len(HandlerItems(pluginOp'.handlers)) :
             ~IsHandler(HandlerItems(pluginOp'.handlers)[i]))
     => /\ ~pluginOp'.ok
        /\ IsTypeError(pluginOp'.value)
        /\ services' = services
        /\ plugins'[pluginOp'.name].handlers =
             (IF plugins[pluginOp'.name] = NoItem THEN [k \in ServiceKinds |-> Undefined]
              ELSE plugins[pluginOp'.name].handlers)
        /\ plugins'[pluginOp'.name].delegates =
             (IF plugins[pluginOp'.name] = NoItem THEN {}
              ELSE plugins[pluginOp'.name].delegates)
        /\ \A other \in PluginNames \ {pluginOp'.name} : plugins'[other] = plugins[other]]_vars

C27_Witness ==
  /\ pluginOp.op = "addHandlers"
  /\ ~pluginOp.ok
  /\ pluginOp.handlers = Arr(<<Fn("f2"), Null>>)
  /\ pluginOp.was[pluginOp.stage] = Undefined
  /\ plugins[pluginOp.name].handlers[pluginOp.stage] = Undefined
  /\ services[pluginOp.stage] = <<>>

\* C28: the handlers registered under one kind of a plugin in one call are
\* called by a run that executes the plugin once each, in the order of the
\* list, each after the one before has settled, with the meta of the run and
\* the options given with the handler (undefined when none was given).
C28_HandlersInOrder ==
  [][/\ \A i \in 1..Len(log') :
          IF log'[i].ev = "call"
          THEN /\ i > 1 => log'[i - 1].ev = "settle"
               /\ log'[i].meta = pipelineRun'.meta.ref
          ELSE /\ i > 1
               /\ log'[i - 1].ev = "call"
               /\ log'[i - 1].inv = log'[i].inv
     /\ RunEnds
          => \A name \in PluginNames : \A kind \in ServiceKinds :
               InvokedHandlers(log', name, kind) # <<>> =>
                 /\ Len(InvokedHandlers(log', name, kind)) = Len(RegisteredHandlers(name, kind))
                 /\ \A i \in 1..Len(RegisteredHandlers(name, kind)) :
                      InvokedHandlers(log', name, kind)[i] = RegisteredHandlers(name, kind)[i]
     /\ (CallsAddHandlers /\ pluginOp'.ok)
          => LET items == HandlerItems(pluginOp'.handlers)
                 kept  == plugins'[pluginOp'.name].handlers[pluginOp'.stage].items
             IN /\ Len(kept) = Len(items)
                /\ \A i \in 1..Len(items) :
                     IF items[i].kind = "function"
                     THEN kept[i] = [handler |-> items[i], options |-> Undefined]
                     ELSE kept[i] = [handler |-> items[i].handler,
                                     options |-> items[i].options]]_vars

C28_Witness ==
  /\ pipelineRun.state = "done"
  /\ Len(log) = 4
  /\ log[1].ev = "call"
  /\ log[1].inv.handler = Fn("f1")
  /\ log[1].inv.options = Str("o1")
  /\ log[2].ev = "settle"
  /\ log[3].ev = "call"
  /\ log[3].inv.handler = Fn("f2")
  /\ log[3].inv.options = Str("o2")
  /\ log[3].inv.plugin = log[1].inv.plugin
  /\ log[3].inv.stage = log[1].inv.stage

\* The number of times a plugin's delegate is registered with a service.
TimesUsed(s, name) == Cardinality({i \in 1..Len(s) : s[i] = name})

\* C29: an addHandlers call with a single function leaves the plugin with one
\* handler for the kind, that function, also when an earlier call had
\* registered another; the delegate of the plugin is registered once with the
\* service of the kind and the call registers nothing with the other services.
C29_SecondCallReplaces ==
  [][(CallsAddHandlers /\ pluginOp'.handlers.kind = "function")
     => /\ pluginOp'.ok
        /\ plugins'[pluginOp'.name].handlers[pluginOp'.stage] =
             Arr(<<[handler |-> pluginOp'.handlers, options |-> Undefined]>>)
        /\ TimesUsed(services'[pluginOp'.stage], pluginOp'.name) = 1
        /\ \A kind \in ServiceKinds \ {pluginOp'.stage} : services'[kind] = services[kind]]_vars

C29_Witness ==
  /\ pluginOp.op = "addHandlers"
  /\ pluginOp.ok
  /\ pluginOp.handlers = Fn("f2")
  /\ pluginOp.was[pluginOp.stage] = Arr(<<[handler |-> Fn("f1"), options |-> Undefined]>>)
  /\ plugins[pluginOp.name].handlers[pluginOp.stage] =
       Arr(<<[handler |-> Fn("f2"), options |-> Undefined]>>)
  /\ services[pluginOp.stage] = <<pluginOp.name>>

\* C30 (as stated): an addHandlers call on a plugin that holds handlers for
\* the kind keeps them, adds the new ones that are not yet present, and no
\* handler appears twice under the kind.
C30_ReRegistrationMerges ==
  [][(CallsAddHandlers /\ pluginOp'.ok /\ pluginOp'.was[pluginOp'.stage] # Undefined)
     => LET old == pluginOp'.was[pluginOp'.stage].items
            new == plugins'[pluginOp'.name].handlers[pluginOp'.stage].items
        IN /\ \A i \in 1..Len(old) : \E j \in 1..Len(new) : new[j].handler = old[i].handler
           /\ \A i, j \in 1..Len(new) : new[i].handler = new[j].handler => i = j]_vars

\* C30 (amended): an addHandlers call on an existing plugin creates no second
\* plugin and registers its delegate no second time, keeps the handlers of
\* the other kinds, and replaces those of its kind by the handlers of the
\* call, so that a handler registered by two successive calls appears once.
C30_ReRegistrationReplaces ==
  [][(CallsAddHandlers /\ pluginOp'.ok /\ plugins[pluginOp'.name] # NoItem)
     => /\ \A kind \in ServiceKinds \ {pluginOp'.stage} :
             plugins'[pluginOp'.name].handlers[kind] = plugins[pluginOp'.name].handlers[kind]
        /\ plugins'[pluginOp'.name].matches = plugins[pluginOp'.name].matches
        /\ \A other \in PluginNames \ {pluginOp'.name} : plugins'[other] = plugins[other]
        /\ \A kind \in ServiceKinds : TimesUsed(services'[kind], pluginOp'.name) <= 1
        /\ LET items == HandlerItems(pluginOp'.handlers)
               new   == plugins'[pluginOp'.name].handlers[pluginOp'.stage].items
           IN /\ Len(new) = Len(items)
              /\ \A i \in 1..Len(items) :
                   new[i].handler = (IF items[i].kind = "function" THEN items[i]
                                     ELSE items[i].handler)]_vars

C30_Witness ==
  /\ pluginOp.op = "addHandlers"
  /\ pluginOp.ok
  /\ pluginOp.stage = "transform"
  /\ pluginOp.handlers = Fn("f1")
  /\ pluginOp.was["transform"] = Arr(<<[handler |-> Fn("f1"), options |-> Undefined]>>)
  /\ pluginOp.was["dependency"] # Undefined
  /\ plugins[pluginOp.name].handlers["dependency"] = pluginOp.was["dependency"]
  /\ plugins[pluginOp.name].handlers["transform"] =
       Arr(<<[handler |-> Fn("f1"), options |-> Undefined]>>)

\* ------------------------------------------------------------------ cycle properties
\* The metas of tasks i and j, of "a" and of "n", are both in their dependency
\* stage and each waits for the other's deferred.
Cycle(i, j) ==
  /\ i <= Len(tasks) /\ j <= Len(tasks)
  /\ tasks[i].name = "a" /\ tasks[i].pc = "waitdeps"
  /\ tasks[j].name = "n" /\ tasks[j].pc = "waitdeps"
  /\ tasks[i].meta.deps = <<"n">>
  /\ tasks[j].meta.deps = <<"a">>
  /\ \E k \in 1..Len(tasks[i].await) : tasks[i].await[k] = TaskRef(j)
  /\ \E k \in 1..Len(tasks[j].await) : tasks[j].await[k] = TaskRef(i)

\* The declared dependencies form a cycle.
CycleDeclared == \E i, j \in 1..MaxTasks : Cycle(i, j)

\* A step of the resolution itself: a collaborator or a promise reaction.
ResolutionStep ==
  \/ \E id \in 1..MaxTasks : \E form \in FetchForms : FetchSettle(id, form)
  \/ \E id \in 1..MaxTasks : TransformSettle(id, TRUE)
  \/ \E id \in 1..MaxTasks : DependencySettle(id, TRUE)
  \/ \E id \in 1..MaxTasks : \E reg \in BOOLEAN : DepsSettled(id, reg)
  \/ \E i \in 1..MaxCalls : \E reg \in BOOLEAN : LoadContinue(i, reg)

\* The load calls that have not settled.
WaitingLoads(ls) == {i \in 1..Len(ls) : ls[i].state = "waiting"}

InFlight == {id \in 1..Len(tasks) : tasks[id].state = "pending"}

\* C32: while work on a name is in flight the name holds a record in the
\* Loader's store, and a load or fetch of a name with work in flight invokes
\* no fetch collaborator and starts no second operation for it.
C32_InFlightHasRecord ==
  /\ \A id \in InFlight : hasModule(Cur, tasks[id].name)
  /\ \A id, other \in InFlight : tasks[id].name = tasks[other].name => id = other

\* C33: a fetch(n) made while n is pending or loaded invokes no fetch
\* collaborator, starts no deferred operation and leaves the record of n in
\* the store as it was.
C33_FetchKeepsRecord ==
  [][\A name \in Names :
       (Calls("fetch", name) /\ ~managerHasModule(Cur, name)
          /\ (isPending(Cur, name) \/ isLoaded(Cur, name)))
       => /\ fetchCalls' = fetchCalls
          /\ tasks' = tasks
          /\ modules' = modules]_vars

\* ------------------------------------------------------------------ link properties
\* The step is a linkModule call of the host with a Module.
CallsLinkModule ==
  /\ nCalls' = nCalls + 1
  /\ lastOp'.op = "linkModule"
  /\ lastOp'.arg.kind = "module"

\* C34: a linkModule(mod) made while the name of mod is pending writes one
\* warning, about that name, and returns or throws what the linker
\* collaborator returns or throws for mod; a linkModule(mod) made while the
\* name of mod is not pending writes no warning.
C34_PendingLinkWarns ==
  [][CallsLinkModule
     => IF isPending(Cur, lastOp'.arg.name)
        THEN /\ lastOp'.warned = <<lastOp'.arg.name>>
             /\ lastOp'.ok = moduleLinker(Cur, lastOp'.arg).ok
             /\ lastOp'.value = moduleLinker(Cur, lastOp'.arg).value
        ELSE lastOp'.warned = <<>>]_vars

\* ------------------------------------------------------------------ pipeline properties
\* The transform stage of task id fails in the step.
TransformFails(id) ==
  /\ id \in 1..Len(tasks)
  /\ tasks[id].pc = "transform"
  /\ tasks'[id].fail = ErrorOf("transform", tasks[id].name)

\* C35: when the transform stage of a module fails its dependency stage does
\* not run (no dependency is fetched, the pipeline of the module is over),
\* the module is not marked loaded, and the deferred of pipelineModuleMeta is
\* rejected with the error of the transform stage; a module whose transform
\* stage has failed never enters its dependency stage.
C35_FailingStageAborts ==
  [][/\ \A id \in 1..MaxTasks :
          TransformFails(id)
          => /\ tasks'[id].pc = "done"
             /\ tasks'[id].meta.deps = <<>>
             /\ Len(tasks') = Len(tasks)
             /\ fetchCalls' = fetchCalls
             /\ completed' = completed
             /\ ~isLoaded([modules |-> modules'], tasks[id].name)
             /\ modules' = modules
             /\ tasks'[id].value = ErrorOf("transform", tasks[id].name)
     /\ \A id \in 1..Len(tasks) :
          (tasks[id].fail # NoItem /\ tasks[id].fail.what = "transform")
          => /\ tasks'[id].pc = "done"
             /\ tasks'[id].await = <<>>]_vars

C35_Witness ==
  \E id \in 1..Len(tasks) :
    /\ tasks[id].name = "n"
    /\ tasks[id].fail = ErrorOf("transform", "n")
    /\ tasks[id].pc = "done"
    /\ tasks[id].value = ErrorOf("transform", "n")
    /\ isLoading(Cur, "n")
    /\ fetchCalls["a"] = 0
    /\ "n" \notin completed

\* ------------------------------------------------------------------ fetch stage properties
\* The step ends the fetch stage of a meta.
FetchStageEnds ==
  /\ pipelineRun'.state \in {"done", "failed"}
  /\ \/ pipelineRun.state \in {"running", "fetching"}
     \/ nPluginCalls' = nPluginCalls + 1 /\ pluginOp'.op = "fetchPipeline"

\* The number of invocations of the default fetch collaborator.
ManagerFetches(l) == Cardinality({i \in 1..Len(l) : l[i].ev = "fetch"})

HandlerAddedSource(l) == \E i \in 1..Len(l) : l[i].ev = "settle" /\ l[i].effect = "source"

HandlerFailed(l) == \E i \in 1..Len(l) : l[i].ev = "settle" /\ l[i].effect = "fail"

\* C36 (as stated): for a meta with a source of its own or an ignored name
\* neither a fetch plugin handler nor the default fetch collaborator is
\* invoked; for a meta a fetch plugin handler has added a source to the
\* collaborator is not invoked; for every other meta it is invoked once and,
\* when it succeeds, its result is configured onto the same meta object.
C36_DefaultFetchOnce ==
  [][/\ ManagerFetches(log') <= 1
     /\ FetchStageEnds
          => IF HasOwnSource(pluginOp'.meta) \/ pluginOp'.ignored
             THEN log' = <<>> /\ pipelineRun'.result = Settled("resolved", pluginOp'.meta)
             ELSE IF HandlerAddedSource(log')
             THEN ManagerFetches(log') = 0
             ELSE /\ ManagerFetches(log') = 1
                  /\ pipelineRun'.result.state = "resolved"
                       => pipelineRun'.result.value =
                            configure(pluginOp'.meta, [source |-> Str("fetched")])]_vars

\* C36 (amended): as stated, except that when a fetch plugin handler fails
\* the stage fails with it and the default fetch collaborator is not invoked,
\* whether or not a handler has added a source.
C36_DefaultFetchUnlessFailed ==
  [][/\ ManagerFetches(log') <= 1
     /\ FetchStageEnds
          => IF HasOwnSource(pluginOp'.meta) \/ pluginOp'.ignored
             THEN log' = <<>> /\ pipelineRun'.result = Settled("resolved", pluginOp'.meta)
             ELSE IF HandlerFailed(log')
             THEN ManagerFetches(log') = 0 /\ pipelineRun'.result.state = "rejected"
             ELSE IF HandlerAddedSource(log')
             THEN /\ ManagerFetches(log') = 0
                  /\ pipelineRun'.result =
                       Settled("resolved", configure(pluginOp'.meta, [source |-> Str("plugin")]))
             ELSE /\ ManagerFetches(log') = 1
                  /\ pipelineRun'.result.state = "resolved"
                       => pipelineRun'.result.value =
                            configure(pluginOp'.meta, [source |-> Str("fetched")])]_vars

C36_Witness ==
  /\ pipelineRun.state = "done"
  /\ Len(log) = 4
  /\ log[1].ev = "call"
  /\ log[2].ev = "settle"
  /\ log[2].effect = "none"
  /\ log[3].ev = "fetch"
  /\ log[4].ev = "fetched"
  /\ pipelineRun.result = Settled("resolved", FetchMeta(1, Path("test", "js"), Str("fetched")))

\* ------------------------------------------------------------------ Meta properties
\* C37: Meta.validate returns for a meta that has an own code property, a
\* factory that is a function, or a source that is a string, and throws a
\* TypeError for every other meta and for a missing meta; no meta is both
\* compiled (isCompiled) and compilable (canCompile).
C37_ValidateIffCompileReady ==
  [][/\ (nObjectCalls' = nObjectCalls + 1 /\ objOp'.op = "validate")
          => LET m == objOp'.arg
             IN /\ objOp'.ok <=>
                     /\ m.kind = "object"
                     /\ \/ m.code # NoItem
                        \/ m.factory.kind = "function"
                        \/ m.source.kind = "string"
                /\ ~objOp'.ok => IsTypeError(objOp'.value)
     /\ (nObjectCalls' = nObjectCalls + 1 /\ objOp'.op = "classify")
          => /\ ~(objOp'.isCompiled /\ objOp'.canCompile)
             /\ (objOp'.isCompiled \/ objOp'.canCompile) <=> validate(objOp'.arg).ok]_vars

C37_Witness ==
  /\ objOp.op = "classify"
  /\ objOp.arg = ObjectOf(Undefined, NoItem, Str("x"))
  /\ objOp.isCompiled
  /\ ~objOp.canCompile

\* ------------------------------------------------------------------ Module properties
\* The step is a call of the Module constructor.
CallsModule == objOp'.op = "module" /\ objOp'.at = nObjectCalls + 1

\* The options carry a deps array.
DepsGiven(options) == options.deps # NoItem /\ options.deps.kind = "arrayref"

\* C38: a Module constructed from options has a deps array of its own with
\* the elements the deps of the options had at that moment, an empty one when
\* the options have no deps; its type is that of the options, UNKNOWN when
\* they have none; constructing it without options throws a TypeError.
\* Updating an array other than the Module's own deps afterwards, the deps of
\* its options included, leaves the deps of the Module as they were.
C38_DepsCopied ==
  [][/\ (CallsModule /\ objOp'.arg \in {Undefined, Null})
          => ~objOp'.ok /\ IsTypeError(objOp'.value) /\ heap' = heap
     /\ (CallsModule /\ objOp'.arg \notin {Undefined, Null})
          => /\ objOp'.ok
             /\ objOp'.value.deps.ref \notin 1..Len(heap)
             /\ \A ref \in 1..Len(heap) : heap'[ref] = heap[ref]
             /\ heap'[objOp'.value.deps.ref] =
                  (IF DepsGiven(objOp'.arg) THEN heap[objOp'.arg.deps.ref] ELSE <<>>)
             /\ objOp'.value.type =
                  (IF objOp'.arg.type \in {NoItem, Str("")} THEN Str("UNKNOWN")
                   ELSE objOp'.arg.type)
             /\ objOp'.value.name = objOp'.arg.name
     /\ (objOp.op = "module" /\ objOp.ok /\ objOp' = objOp /\ DepsGiven(objOp.arg)
           /\ heap'[objOp.arg.deps.ref] # heap[objOp.arg.deps.ref])
          => heap'[objOp.value.deps.ref] = heap[objOp.value.deps.ref]]_vars

C38_Witness ==
  /\ objOp.op = "module"
  /\ objOp.ok
  /\ objOp.arg.deps = ArrayRef(1)
  /\ heap[1] = <<"a", "n">>
  /\ heap[objOp.value.deps.ref] = <<"a">>
  /\ objOp.value.type = Str("UNKNOWN")

\* ------------------------------------------------------------------ load properties
\* The i-th load has resolved to the Module of its name, which is in the
\* manager's cache and holds no record in the store.
LoadResolved(i) ==
  /\ i <= Len(loads)
  /\ loads[i].state = "resolved"
  /\ loads[i].value.kind = "module"
  /\ loads[i].value.name = loads[i].name
  /\ managerHasModule(Cur, loads[i].name)
  /\ ~hasModule(Cur, loads[i].name)

\* C39: when every collaborator settles successfully (the graph n -> a is
\* finite and acyclic), every load that is made eventually resolves to the
\* Module of its name, the name then being cached and without a record in
\* the store.
C39_LoadEventuallyResolves ==
  \A i \in 1..MaxCalls : [](i <= Len(loads) => <>LoadResolved(i))

\* C40: an asyncBuildModule(n) made while n is neither loaded nor pending
\* (unknown, loading, or compiled and cached) throws, invokes neither the
\* compile nor the linker collaborator, starts no deferred operation and
\* leaves the store as it was.
C40_AsyncBuildUnknownFails ==
  [][\A name \in Names :
       (Calls("asyncBuildModule", name) /\ ~isLoaded(Cur, name) /\ ~isPending(Cur, name))
       => /\ ~lastOp'.ok
          /\ lastOp'.value.kind = "error"
          /\ produced' = produced
          /\ cache' = cache
          /\ modules' = modules
          /\ tasks' = tasks
          /\ fetchCalls' = fetchCalls]_vars

C40_Witness ==
  /\ lastOp.op = "asyncBuildModule"
  /\ ~lastOp.ok
  /\ lastOp.name = "a"
  /\ managerHasModule(Cur, "a")
  /\ ~hasModule(Cur, "a")
  /\ nCalls = 2

====
